---------------------------- MODULE Spec2Model ----------------------------
(***************************************************************************)
(* A model of databoard (ramp-board):                                      *)
(*   - model.py: the Submission / SubmissionOnCVFold records, their state  *)
(*     writers (SubmissionOnCVFold.update, Submission.set_state) and the   *)
(*     aggregation Submission.set_state_after_training;                    *)
(*   - generic.py: the file based scheduler train_and_valid_models /       *)
(*     test_models and the fold executors train_on_fold, test_on_fold,     *)
(*     train_and_valid_on_fold;                                            *)
(*   - generic.py: the greedy ensemble get_best_index_list, the two        *)
(*     leaderboards, the calibrator calibrate / IsotonicCalibrator;        *)
(*   - the two combiners (model.py combine_predictions_list, generic.py    *)
(*     combine_models_using_probas) and Submission.set_contributivity.     *)
(***************************************************************************)
EXTENDS Integers, Sequences, FiniteSets, TLC

(***************************************************************************)
(* Values                                                                  *)
(***************************************************************************)

\* model.py:474-476
submission_states ==
    {"new", "checked", "checking_error", "trained", "training_error",
     "validated", "validating_error", "tested", "testing_error"}

\* iris_test.py:14, the number of cross-validation folds of the event
n_cv == 2

\* The submissions of the store, and the positions of on_cv_folds.
Submissions == {"A", "B"}
Folds == 1..n_cv

\* How many distinct non-empty error messages the model draws from.
NMsgs == 2

\* Error messages, as sequences of symbols: NoMsg is '' (the column default,
\* model.py:507, 818) and <<i>> is the i-th sample message.  Predictions:
\* "None" is the column default (model.py:809-810).
NoMsg == <<>>
Msgs == {NoMsg} \cup {<<i>> : i \in 1..NMsgs}
Preds == {"None", "p1"}

VARIABLES
    \* ---- model.py: Submission
    state,                  \* Submission.state
    error_msg,              \* Submission.error_msg
    training_timestamp,     \* Submission.training_timestamp
    \* ---- model.py: SubmissionOnCVFold, by submission and position
    fold_state,             \* SubmissionOnCVFold.state
    fold_error_msg,         \* SubmissionOnCVFold.error_msg
    full_train_predictions, \* SubmissionOnCVFold.full_train_predictions
    test_predictions,       \* SubmissionOnCVFold.test_predictions
    \* ---- observation of the calls (history)
    aggregated,             \* set_state_after_training was the last call on s
    prev_state,             \* Submission.state before that call
    prev_error_msg,         \* Submission.error_msg before that call
    \* ---- generic.py: the models table and the scheduler's position
    df_state,               \* orig_models_df.loc[idx, 'state']
    pass,                   \* the scheduler function running or last run
    pc,                     \* "idle", or "loop" inside the for loop
    queue,                  \* the rows the for loop has not reached yet
    cur,                    \* the submission whose Parallel call is running
    ran,                    \* the scheduler functions called so far
    visited,                \* the rows this pass handed to Parallel (history)
    task,                   \* position of each fold worker of a submission
    n_train,                \* calls of train_on_fold by that worker (history)
    cache_miss,             \* that worker's pickle.load raised IOError (history)
    \* ---- generic.py: the files under full_model_path
    model_file,             \* model/<hash>.p
    valid_file,             \* valid/<hash>.csv
    test_file,              \* test/<hash>.csv
    error_txt,              \* error.txt
    test_error_txt,         \* test_error.txt
    \* ---- generic.py: get_best_index_list and leaderboard_combination
    predictions_list,       \* the calibrated predictions of the pool
    ground_truth,           \* the true labels of the validation points
    score,                  \* specific.score
    best_index_list,
    old_best_index_list,
    improvement,
    epc,                    \* position in get_best_index_list
    counts,                 \* leaderboard_combination: counts
    leaderboard,            \* leaderboard_combination: the sorted index
    \* ---- the two combiners, called on predictions_list
    y_comb_index_list,      \* model.py, combine_predictions_list: index_list
    y_comb,                 \* model.py, combine_predictions_list: y_comb
    indexes,                \* generic.py, combine_models_using_probas
    combined_y_probas_array, \* generic.py, combine_models_using_probas
    \* ---- generic.py: calibrate, called twice on the same probabilities
    y_probas_array,         \* the uncalibrated probabilities of each point
    cal_ground_truth,       \* the ground_truth of each of the two calls
    rng,                    \* what the generator seeded with random_state draws
    folds,                  \* calibrate: fold1_is, fold2_is of each call
    calibrated_proba_array, \* calibrate: the result of each call
    raised,                 \* the exception that left each call
    \* ---- model.py: Submission and SubmissionOnCVFold, set_contributivity
    is_valid,               \* Submission.is_valid
    is_to_ensemble,         \* Submission.is_to_ensemble
    contributivity,         \* Submission.contributivity, a fraction
    fold_contributivity,    \* SubmissionOnCVFold.contributivity
    valid_score_cv_bag,     \* Submission.valid_score_cv_bag
    \* ---- generic.py: leaderboard_classical
    classical_leaderboard,  \* leaderboard_classical: the sorted index
    \* ---- one greedy step: model.py get_next_best_single_fold and
    \* ---- generic.py best_combine, called on the same list
    step_index_list,        \* the argument best_index_list / best_indexes
    next_best_single_fold,  \* get_next_best_single_fold: what it returned
    best_combine_result,    \* best_combine: the list it returned
    \* ---- generic.py: leaderboard_combination over all the folds
    models_df_shape,        \* models_df.shape[0]
    best_index_lists,       \* the list get_best_index_list returned per fold
    lb_counts,              \* counts
    lb_counted,             \* the lists the for loop (709) has gone through
    lb_leaderboard,         \* the sorted index that is returned
    lb_pc,                  \* position in leaderboard_combination
    \* ---- generic.py: the error file of a failed submission (336-344,
    \* ---- 387-395)
    exception_text,         \* str(e)
    f_name,                 \* the file opened: "error" or "test_error" (.txt)
    f_written,              \* what f.write was given
    \* ---- model.py: one SubmissionOnCVFold with all its columns, and one
    \* ---- call of update on it
    on_cv_fold,             \* the SubmissionOnCVFold (a record of its columns)
    on_cv_fold_before,      \* the same before the call (history)
    detached_on_cv_fold,    \* the argument of the call
    update_called,          \* update was called
    \* ---- generic.py: get_hash_string_from_indices
    train_is,               \* the two index lists that are hashed
    hash_string,            \* the hash string each call returned
    \* ---- generic.py: the fold workers of one submission on the file system
    dirs,                   \* the sub-directories of full_model_path
    wpc,                    \* position of each fold worker
    wrote                   \* the paths each worker created or wrote (history)

histVars == <<n_train, cache_miss>>

storeVars == <<state, error_msg, training_timestamp, fold_state,
               fold_error_msg, full_train_predictions, test_predictions,
               aggregated, prev_state, prev_error_msg>>

schedVars == <<df_state, pass, pc, queue, cur, ran, visited, task, histVars>>

fileVars == <<model_file, valid_file, test_file, error_txt, test_error_txt>>

ensVars == <<predictions_list, ground_truth, score, best_index_list,
             old_best_index_list, improvement, epc, counts, leaderboard>>

fsVars == <<dirs, wpc, wrote>>

combVars == <<y_comb_index_list, y_comb, indexes,
              combined_y_probas_array>>

calVars == <<y_probas_array, cal_ground_truth, rng, folds,
             calibrated_proba_array, raised>>

contribVars == <<is_valid, is_to_ensemble, contributivity,
                 fold_contributivity, valid_score_cv_bag>>

classicalVars == <<classical_leaderboard>>

\* What the leaderboard side of the program works on.
idVars == <<train_is, hash_string>>

stepVars == <<step_index_list, next_best_single_fold,
              best_combine_result>>

countVars == <<models_df_shape, best_index_lists, lb_counts, lb_counted,
               lb_leaderboard, lb_pc>>

cutVars == <<exception_text, f_name, f_written>>

rowVars == <<on_cv_fold, on_cv_fold_before, detached_on_cv_fold,
             update_called>>

boardVars == <<combVars, calVars, contribVars, classicalVars, idVars,
               stepVars, countVars, cutVars, rowVars>>

vars == <<storeVars, schedVars, fileVars, ensVars, fsVars, boardVars>>

(***************************************************************************)
(* model.py: Submission.set_state_after_training (679-703), as a function  *)
(* of the previous state/message and the lists of fold states/messages.    *)
(***************************************************************************)

\* Python: all(state in S for state in states)
AllIn(states, S) == \A i \in DOMAIN states : states[i] \in S

\* Python: any(state == x for state in states)
AnyIs(states, x) == \E i \in DOMAIN states : states[i] = x

\* (mutation of IndexOf: the highest position holding x)
IndexOf_last(states, x) ==
    CHOOSE i \in DOMAIN states :
        /\ states[i] = x
        /\ \A j \in DOMAIN states : j > i => states[j] # x

\* Python: states.index(x), the lowest position holding x
IndexOf(states, x) ==
    CHOOSE i \in DOMAIN states :
        /\ states[i] = x
        /\ \A j \in DOMAIN states : j < i => states[j] # x

\* Python: 'error' in st, over the nine names of submission_states
ContainsError(st) ==
    st \in {"checking_error", "training_error", "validating_error",
            "testing_error"}

\* (mutation of AggState: validating_error tested before training_error)
AggState_swapped(prev, states) ==
    IF AllIn(states, {"tested"}) THEN "tested"
    ELSE IF AllIn(states, {"tested", "validated"}) THEN "validated"
    ELSE IF AllIn(states, {"tested", "validated", "trained"}) THEN "trained"
    ELSE IF AnyIs(states, "validating_error") THEN "validating_error"
    ELSE IF AnyIs(states, "training_error") THEN "training_error"
    ELSE IF AnyIs(states, "testing_error") THEN "testing_error"
    ELSE prev

\* (mutation of AggState: the 'trained' branch is missing)
AggState_noTrained(prev, states) ==
    IF AllIn(states, {"tested"}) THEN "tested"
    ELSE IF AllIn(states, {"tested", "validated"}) THEN "validated"
    ELSE IF AnyIs(states, "training_error") THEN "training_error"
    ELSE IF AnyIs(states, "validating_error") THEN "validating_error"
    ELSE IF AnyIs(states, "testing_error") THEN "testing_error"
    ELSE prev

\* (mutation of AggState: an empty list of fold states takes no branch)
AggState_emptyKeeps(prev, states) ==
    IF states = <<>> THEN prev
    ELSE IF AllIn(states, {"tested"}) THEN "tested"
    ELSE IF AllIn(states, {"tested", "validated"}) THEN "validated"
    ELSE IF AllIn(states, {"tested", "validated", "trained"}) THEN "trained"
    ELSE IF AnyIs(states, "training_error") THEN "training_error"
    ELSE IF AnyIs(states, "validating_error") THEN "validating_error"
    ELSE IF AnyIs(states, "testing_error") THEN "testing_error"
    ELSE prev

\* self.state after the if/elif chain (683-701); no branch: left as it was
AggState(prev, states) ==
    IF AllIn(states, {"tested"}) THEN "tested"
    ELSE IF AllIn(states, {"tested", "validated"}) THEN "validated"
    ELSE IF AllIn(states, {"tested", "validated", "trained"}) THEN "trained"
    ELSE IF AnyIs(states, "training_error") THEN "training_error"
    ELSE IF AnyIs(states, "validating_error") THEN "validating_error"
    ELSE IF AnyIs(states, "testing_error") THEN "testing_error"
    ELSE prev

\* (mutation of AggMsgChain: the message of the first fold in any error state)
AggMsgChain_firstError(prevmsg, states, msgs) ==
    IF \E i \in DOMAIN states : ContainsError(states[i])
    THEN msgs[CHOOSE i \in DOMAIN states :
                 /\ ContainsError(states[i])
                 /\ \A j \in DOMAIN states : j < i => ~ContainsError(states[j])]
    ELSE prevmsg

\* self.error_msg after the if/elif chain (683-701)
AggMsgChain(prevmsg, states, msgs) ==
    IF AllIn(states, {"tested", "validated", "trained"}) THEN prevmsg
    ELSE IF AnyIs(states, "training_error")
        THEN msgs[IndexOf(states, "training_error")]
    ELSE IF AnyIs(states, "validating_error")
        THEN msgs[IndexOf(states, "validating_error")]
    ELSE IF AnyIs(states, "testing_error")
        THEN msgs[IndexOf(states, "testing_error")]
    ELSE prevmsg

\* (mutation of AggMsg: the message is never cleared)
AggMsg_notCleared(prev, prevmsg, states, msgs) ==
    AggMsgChain(prevmsg, states, msgs)

\* self.error_msg at return: cleared when 'error' not in self.state (702-703)
AggMsg(prev, prevmsg, states, msgs) ==
    IF ~ContainsError(AggState(prev, states)) THEN NoMsg
    ELSE AggMsgChain(prevmsg, states, msgs)

\* (mutation of set_state_after_training: the folds' messages are cleared
\* once the submission holds one)
set_state_after_training_clearsFolds(s) ==
    /\ training_timestamp' = [training_timestamp EXCEPT ![s] = "utcnow"]
    /\ state' = [state EXCEPT ![s] = AggState(state[s], fold_state[s])]
    /\ error_msg' = [error_msg EXCEPT ![s] =
           AggMsg(state[s], error_msg[s], fold_state[s], fold_error_msg[s])]
    /\ aggregated' = [aggregated EXCEPT ![s] = TRUE]
    /\ prev_state' = [prev_state EXCEPT ![s] = state[s]]
    /\ prev_error_msg' = [prev_error_msg EXCEPT ![s] = error_msg[s]]
    /\ fold_error_msg' = [fold_error_msg EXCEPT ![s] = [f \in Folds |-> NoMsg]]
    /\ UNCHANGED <<fold_state, full_train_predictions,
                   test_predictions, schedVars, fileVars,
                   ensVars, fsVars, boardVars>>

set_state_after_training(s) ==
    /\ training_timestamp' = [training_timestamp EXCEPT ![s] = "utcnow"]
    /\ state' = [state EXCEPT ![s] = AggState(state[s], fold_state[s])]
    /\ error_msg' = [error_msg EXCEPT ![s] =
           AggMsg(state[s], error_msg[s], fold_state[s], fold_error_msg[s])]
    /\ aggregated' = [aggregated EXCEPT ![s] = TRUE]
    /\ prev_state' = [prev_state EXCEPT ![s] = state[s]]
    /\ prev_error_msg' = [prev_error_msg EXCEPT ![s] = error_msg[s]]
    /\ UNCHANGED <<fold_state, fold_error_msg, full_train_predictions,
                   test_predictions, schedVars, fileVars,
                   ensVars, fsVars, boardVars>>

(***************************************************************************)
(* model.py: Submission.set_state (606-609)                                *)
(***************************************************************************)
set_state(s, st) ==
    /\ state' = [state EXCEPT ![s] = st]
    /\ fold_state' = [fold_state EXCEPT ![s] = [f \in Folds |-> st]]
    /\ aggregated' = [aggregated EXCEPT ![s] = FALSE]
    /\ prev_state' = [prev_state EXCEPT ![s] = st]
    /\ UNCHANGED <<error_msg, training_timestamp, fold_error_msg,
                   full_train_predictions, test_predictions, prev_error_msg,
                   schedVars, fileVars,
                   ensVars, fsVars, boardVars>>

(***************************************************************************)
(* model.py: SubmissionOnCVFold.update (876-895).  d is the detached copy  *)
(* (DetachedSubmissionOnCVFold, 898-922) a worker hands back.              *)
(***************************************************************************)
Detached ==
    [state : submission_states, error_msg : Msgs,
     full_train_predictions : Preds, test_predictions : Preds]

\* SubmissionOnCVFold.is_error (834-839)
is_error(st) ==
    \/ st = "training_error"
    \/ st = "checking_error"
    \/ st = "validating_error"
    \/ st = "testing_error"

\* the fields of the fold after update(d)
UpdErrorMsg(old, d) ==
    IF is_error(d.state) THEN d.error_msg ELSE old

UpdFullTrainPredictions(old, d) ==
    IF ~is_error(d.state) /\ d.state \in {"validated", "tested"}
    THEN d.full_train_predictions ELSE old

UpdTestPredictions(old, d) ==
    IF ~is_error(d.state) /\ d.state \in {"tested"}
    THEN d.test_predictions ELSE old

update(s, f, d) ==
    /\ fold_state' = [fold_state EXCEPT ![s][f] = d.state]
    /\ fold_error_msg' = [fold_error_msg EXCEPT ![s][f] =
           UpdErrorMsg(fold_error_msg[s][f], d)]
    /\ full_train_predictions' = [full_train_predictions EXCEPT ![s][f] =
           UpdFullTrainPredictions(full_train_predictions[s][f], d)]
    /\ test_predictions' = [test_predictions EXCEPT ![s][f] =
           UpdTestPredictions(test_predictions[s][f], d)]
    /\ aggregated' = [aggregated EXCEPT ![s] = FALSE]
    /\ UNCHANGED <<state, error_msg, training_timestamp, prev_state,
                   prev_error_msg, schedVars, fileVars,
                   ensVars, fsVars, boardVars>>

(***************************************************************************)
(* model.py: SubmissionOnCVFold.update (876-895) on every column it can    *)
(* write: one fold row as a record of its columns, and the row after       *)
(* update(d).                                                              *)
(***************************************************************************)

\* Times: 0.0 is the column default (812-814), "t0" a time the row holds
\* from before and "t1" the time the worker measured.
OldTimes == {"0.0", "t0"}
NewTimes == {"t1"}

\* Scores: 0.0 is the column default (815-817), "s0" a score the row holds
\* from before.
OldScores == {"0.0", "s0"}

\* specific.score(true predictions, predictions, indices): the score of
\* these predictions on these indices, whatever the event's score makes it.
score_on(predictions, is) == <<"score", predictions, is>>

\* The rows update is called on: the times are all at their default or all
\* held from before, and so are the scores.
Rows ==
    {[state |-> st, error_msg |-> m,
      train_time |-> t, valid_time |-> t, test_time |-> t,
      full_train_predictions |-> p, test_predictions |-> q,
      train_score |-> sc, valid_score |-> sc, test_score |-> sc] :
        st \in submission_states, m \in Msgs, t \in OldTimes,
        p \in Preds, q \in Preds, sc \in OldScores}

\* The detached copies a worker hands back, with the times it measured.
DetachedRows ==
    {[state |-> d.state, error_msg |-> d.error_msg,
      train_time |-> t, valid_time |-> t, test_time |-> t,
      full_train_predictions |-> d.full_train_predictions,
      test_predictions |-> d.test_predictions] :
        d \in Detached, t \in NewTimes}

\* (mutation of update_row: error_msg is copied whatever the state)
update_row_alwaysMsg(row, d) ==
    LET st == d.state
        timed == ~is_error(st) /\ st \in {"trained", "validated", "tested"}
        valid == ~is_error(st) /\ st \in {"validated", "tested"}
        tested == ~is_error(st) /\ st \in {"tested"}
    IN  [state |-> st,
         error_msg |-> d.error_msg,
         train_time |-> IF timed THEN d.train_time ELSE row.train_time,
         valid_time |-> IF valid THEN d.valid_time ELSE row.valid_time,
         full_train_predictions |->
             IF valid THEN d.full_train_predictions
             ELSE row.full_train_predictions,
         train_score |->
             IF valid THEN score_on(d.full_train_predictions, "train_is")
             ELSE row.train_score,
         valid_score |->
             IF valid THEN score_on(d.full_train_predictions, "test_is")
             ELSE row.valid_score,
         test_time |-> IF tested THEN d.test_time ELSE row.test_time,
         test_predictions |->
             IF tested THEN d.test_predictions ELSE row.test_predictions,
         test_score |->
             IF tested THEN score_on(d.test_predictions, "test")
             ELSE row.test_score]

\* update (876-895): the row after update(d).  The state is written first
\* (878) and is_error reads the new state (879).
update_row(row, d) ==
    LET st == d.state
        timed == ~is_error(st) /\ st \in {"trained", "validated", "tested"}
        valid == ~is_error(st) /\ st \in {"validated", "tested"}
        tested == ~is_error(st) /\ st \in {"tested"}
    IN  [state |-> st,
         error_msg |-> IF is_error(st) THEN d.error_msg ELSE row.error_msg,
         train_time |-> IF timed THEN d.train_time ELSE row.train_time,
         valid_time |-> IF valid THEN d.valid_time ELSE row.valid_time,
         full_train_predictions |->
             IF valid THEN d.full_train_predictions
             ELSE row.full_train_predictions,
         train_score |->
             IF valid THEN score_on(d.full_train_predictions, "train_is")
             ELSE row.train_score,
         valid_score |->
             IF valid THEN score_on(d.full_train_predictions, "test_is")
             ELSE row.valid_score,
         test_time |-> IF tested THEN d.test_time ELSE row.test_time,
         test_predictions |->
             IF tested THEN d.test_predictions ELSE row.test_predictions,
         test_score |->
             IF tested THEN score_on(d.test_predictions, "test")
             ELSE row.test_score]

\* One call of update on the row.
UpdateRow ==
    /\ ~update_called
    /\ \E d \in DetachedRows :
           /\ detached_on_cv_fold' = d
           /\ on_cv_fold' = update_row(on_cv_fold, d)
    /\ on_cv_fold_before' = on_cv_fold
    /\ update_called' = TRUE
    /\ UNCHANGED <<storeVars, schedVars, fileVars, ensVars, fsVars,
                   combVars, calVars, contribVars, classicalVars, idVars,
                   stepVars, countVars, cutVars>>

(***************************************************************************)
(* generic.py: the scheduler and the fold executors                        *)
(***************************************************************************)

\* models_df.sort("timestamp") (311, 360): submission A is the older one.
SortedRows == <<"A", "B">>

\* generic.py:24, the n_jobs of every Parallel call
n_processes == 2

\* The values of the 'state' column: the ones the scheduler writes (332,
\* 334, 382, 384), the one it skips (322, 371) and a fresh row.
DfStates == {"new", "ignore", "trained", "error", "tested", "test_error"}

\* Where a fold worker stands.  raised_*: the worker raised at that call.
\* aborted: the worker was not run, or was killed, because Parallel raised.
RaisedPcs == {"raised_train", "raised_dump", "raised_valid", "raised_load",
              "raised_test"}
RunningPcs == {"trained", "retrain", "loaded", "retrained"}
TaskPcs == {"pending", "done", "aborted"} \cup RunningPcs \cup RaisedPcs

\* What the Model Provider, the file system and pickle do in one call of
\* train_on_fold: a statement before the dump raises, train_model (214) or
\* the write of the training time (216-217), and the model file is not
\* touched; pickle.dump succeeds (221); it raises PicklingError (222-224);
\* it raises another exception after the file was opened for writing
\* (220-221).
TrainOutcomes == {"fit_raises", "dumped", "PicklingError", "dump_raises"}

\* train_on_fold (200-229): the model file afterwards
TrainModelFile(old, o) ==
    CASE o = "fit_raises" -> old
      [] o = "dumped" -> "ok"
      [] o = "PicklingError" -> "absent"
      [] o = "dump_raises" -> "corrupt"

\* train_on_fold (200-229): returns the trained model, or raises
TrainReturns(o) == o \in {"dumped", "PicklingError"}

\* train_on_fold (200-229): the statement that raised
TrainRaisedPc(o) ==
    CASE o = "fit_raises" -> "raised_train"
      [] o = "dump_raises" -> "raised_dump"

\* test_on_fold (237-243): pickle.load of the model file.  An absent file is
\* an IOError, caught; a file pickle cannot read raises another exception.
LoadPc(file) ==
    CASE file = "ok" -> "loaded"
      [] file = "absent" -> "retrain"
      [] file = "corrupt" -> "raised_load"

\* joblib dispatches the folds in order, at most n_processes at a time.
CanDispatch(s, f) ==
    /\ task[s][f] = "pending"
    /\ \A g \in Folds : g < f => task[s][g] # "pending"
    /\ Cardinality({g \in Folds : task[s][g] \in RunningPcs}) < n_processes

\* train_and_valid_models (310-320), test_models (359-368)
\* The operator calls each of the two functions at most once, in any order.
StartPass(kind) ==
    /\ pc = "idle"
    /\ kind \notin ran
    /\ pass' = kind
    /\ pc' = "loop"
    /\ queue' = SortedRows
    /\ ran' = ran \cup {kind}
    /\ visited' = {}
    /\ task' = [s \in Submissions |-> [f \in Folds |-> "pending"]]
    /\ n_train' = [s \in Submissions |-> [f \in Folds |-> 0]]
    /\ cache_miss' = [s \in Submissions |-> [f \in Folds |-> FALSE]]
    /\ UNCHANGED <<df_state, cur, storeVars, ensVars, fsVars, boardVars,
                   fileVars>>

\* the for loop on a row in state "ignore" (321-323, 370-372)
SkipIgnored ==
    /\ pc = "loop"
    /\ cur = "none"
    /\ queue # <<>>
    /\ df_state[Head(queue)] \in {"ignore"}
    /\ queue' = Tail(queue)
    /\ UNCHANGED <<df_state, pass, pc, cur, ran, visited, task, histVars,
                   storeVars, ensVars, fsVars, boardVars, fileVars>>

\* (mutation of BeginSubmission: a row in state "ignore" is run as any other)
BeginSubmission_any ==
    /\ pc = "loop"
    /\ cur = "none"
    /\ queue # <<>>
    /\ cur' = Head(queue)
    /\ queue' = Tail(queue)
    /\ visited' = visited \cup {Head(queue)}
    /\ task' = [task EXCEPT ![Head(queue)] = [f \in Folds |-> "pending"]]
    /\ n_train' = [n_train EXCEPT ![Head(queue)] = [f \in Folds |-> 0]]
    /\ cache_miss' =
           [cache_miss EXCEPT ![Head(queue)] = [f \in Folds |-> FALSE]]
    /\ UNCHANGED <<df_state, pass, pc, ran, storeVars, ensVars, fsVars,
                   boardVars, fileVars>>

\* the for loop on any other row: the Parallel call starts (325-330, 374-380)
BeginSubmission ==
    /\ pc = "loop"
    /\ cur = "none"
    /\ queue # <<>>
    /\ df_state[Head(queue)] \notin {"ignore"}
    /\ cur' = Head(queue)
    /\ queue' = Tail(queue)
    /\ visited' = visited \cup {Head(queue)}
    /\ task' = [task EXCEPT ![Head(queue)] = [f \in Folds |-> "pending"]]
    /\ n_train' = [n_train EXCEPT ![Head(queue)] = [f \in Folds |-> 0]]
    /\ cache_miss' =
           [cache_miss EXCEPT ![Head(queue)] = [f \in Folds |-> FALSE]]
    /\ UNCHANGED <<df_state, pass, pc, ran, storeVars, ensVars, fsVars,
                   boardVars, fileVars>>

\* train_and_valid_on_fold, first statement: train_on_fold (250)
TrainStep(f) ==
    /\ pass = "train"
    /\ cur # "none"
    /\ CanDispatch(cur, f)
    /\ \E o \in TrainOutcomes :
         /\ model_file' = [model_file EXCEPT ![cur][f] =
                TrainModelFile(model_file[cur][f], o)]
         /\ task' = [task EXCEPT ![cur][f] =
                IF TrainReturns(o) THEN "trained" ELSE TrainRaisedPc(o)]
    /\ n_train' = [n_train EXCEPT ![cur][f] = @ + 1]
    /\ UNCHANGED <<df_state, pass, pc, queue, cur, ran, visited, cache_miss,
                   valid_file, test_file, error_txt, test_error_txt,
                   storeVars, ensVars, fsVars, boardVars>>

\* train_and_valid_on_fold, the rest: predict and save (252-263)
ValidStep(f) ==
    /\ pass = "train"
    /\ cur # "none"
    /\ task[cur][f] = "trained"
    /\ \E ok \in BOOLEAN :
         /\ valid_file' = [valid_file EXCEPT ![cur][f] =
                IF ok THEN "saved" ELSE @]
         /\ task' = [task EXCEPT ![cur][f] =
                IF ok THEN "done" ELSE "raised_valid"]
    /\ UNCHANGED <<df_state, pass, pc, queue, cur, ran, visited, histVars,
                   model_file, test_file, error_txt, test_error_txt,
                   storeVars, ensVars, fsVars, boardVars>>

\* test_on_fold, the load of the pickled model (232-242)
LoadStep(f) ==
    /\ pass = "test"
    /\ cur # "none"
    /\ CanDispatch(cur, f)
    /\ task' = [task EXCEPT ![cur][f] = LoadPc(model_file[cur][f])]
    /\ cache_miss' = [cache_miss EXCEPT ![cur][f] =
           LoadPc(model_file[cur][f]) = "retrain"]
    /\ UNCHANGED <<df_state, pass, pc, queue, cur, ran, visited, n_train,
                   fileVars, storeVars, ensVars, fsVars, boardVars>>

\* (mutation of RetrainStep: the except branch does not retrain)
RetrainStep_none(f) ==
    /\ pass = "test"
    /\ cur # "none"
    /\ task[cur][f] = "retrain"
    /\ task' = [task EXCEPT ![cur][f] = "retrained"]
    /\ UNCHANGED <<df_state, pass, pc, queue, cur, ran, visited, histVars,
                   fileVars, storeVars, ensVars, fsVars, boardVars>>

\* test_on_fold, the except branch: train_on_fold (243)
RetrainStep(f) ==
    /\ pass = "test"
    /\ cur # "none"
    /\ task[cur][f] = "retrain"
    /\ \E o \in TrainOutcomes :
         /\ model_file' = [model_file EXCEPT ![cur][f] =
                TrainModelFile(model_file[cur][f], o)]
         /\ task' = [task EXCEPT ![cur][f] =
                IF TrainReturns(o) THEN "retrained" ELSE TrainRaisedPc(o)]
    /\ n_train' = [n_train EXCEPT ![cur][f] = @ + 1]
    /\ UNCHANGED <<df_state, pass, pc, queue, cur, ran, visited, cache_miss,
                   valid_file, test_file, error_txt, test_error_txt,
                   storeVars, ensVars, fsVars, boardVars>>

\* test_on_fold, the rest: predict and save (245-247)
TestStep(f) ==
    /\ pass = "test"
    /\ cur # "none"
    /\ task[cur][f] \in {"loaded", "retrained"}
    /\ \E ok \in BOOLEAN :
         /\ test_file' = [test_file EXCEPT ![cur][f] =
                IF ok THEN "saved" ELSE @]
         /\ task' = [task EXCEPT ![cur][f] =
                IF ok THEN "done" ELSE "raised_test"]
    /\ UNCHANGED <<df_state, pass, pc, queue, cur, ran, visited, histVars,
                   model_file, valid_file, error_txt, test_error_txt,
                   storeVars, ensVars, fsVars, boardVars>>

\* The fold whose exception Parallel raises: joblib collects the results in
\* dispatch order, so it is the first fold that raised, once every fold
\* before it has returned.
FirstRaised(s, f) ==
    /\ task[s][f] \in RaisedPcs
    /\ \A g \in Folds : g < f => task[s][g] = "done"

\* What Parallel leaves of the fold workers when it raises: the ones that
\* did not finish are not run, or are terminated with the pool.
AbortUnfinished(t) ==
    [f \in Folds |-> IF t[f] \in RunningPcs \cup {"pending"}
                     THEN "aborted" ELSE t[f]]

\* Parallel returned: every fold worker returned (330-332, 380-382)
ParallelReturn ==
    /\ pc = "loop"
    /\ cur # "none"
    /\ \A f \in Folds : task[cur][f] = "done"
    /\ df_state' = [df_state EXCEPT ![cur] =
           IF pass = "train" THEN "trained" ELSE "tested"]
    /\ cur' = "none"
    /\ UNCHANGED <<pass, pc, queue, ran, visited, task, histVars,
                   storeVars, ensVars, fsVars, boardVars, fileVars>>

\* (mutation of ParallelRaise: the exception is not caught and ends the loop)
ParallelRaise_uncaught ==
    /\ pc = "loop"
    /\ cur # "none"
    /\ \E f \in Folds : FirstRaised(cur, f)
    /\ task' = [task EXCEPT ![cur] = AbortUnfinished(task[cur])]
    /\ cur' = "none"
    /\ pc' = "idle"
    /\ queue' = <<>>
    /\ UNCHANGED <<df_state, pass, ran, visited, histVars, storeVars,
                   ensVars, fsVars, boardVars,
                   fileVars>>

\* Parallel raised: the except branch (333-344, 383-395)
ParallelRaise ==
    /\ pc = "loop"
    /\ cur # "none"
    /\ \E f \in Folds :
         /\ FirstRaised(cur, f)
         /\ IF pass = "train"
            THEN /\ error_txt' = [error_txt EXCEPT ![cur] = task[cur][f]]
                 /\ UNCHANGED test_error_txt
            ELSE /\ test_error_txt' =
                        [test_error_txt EXCEPT ![cur] = task[cur][f]]
                 /\ UNCHANGED error_txt
    /\ task' = [task EXCEPT ![cur] = AbortUnfinished(task[cur])]
    /\ df_state' = [df_state EXCEPT ![cur] =
           IF pass = "train" THEN "error" ELSE "test_error"]
    /\ cur' = "none"
    /\ UNCHANGED <<pass, pc, queue, ran, visited, histVars, model_file,
                   valid_file, test_file, storeVars, ensVars, fsVars,
                   boardVars>>

\* the for loop is exhausted: the scheduler function returns
EndPass ==
    /\ pc = "loop"
    /\ cur = "none"
    /\ queue = <<>>
    /\ pc' = "idle"
    /\ UNCHANGED <<df_state, pass, queue, cur, ran, visited, task,
                   histVars, storeVars, ensVars, fsVars, boardVars, fileVars>>

(***************************************************************************)
(* generic.py: the greedy ensemble of one fold (get_best_index_list,       *)
(* best_combine, combine_models_using_probas) and its count in             *)
(* leaderboard_combination.                                                *)
(*                                                                         *)
(* A model of the pool is its calibrated probability of class 1 on each    *)
(* validation point; indices are Python's, from 0.  A combination is held  *)
(* as the number n of members and the sum of their probabilities, so that  *)
(* its mean, sum / n, is exact.                                            *)
(***************************************************************************)

\* The largest pool and the number of validation points the model draws.
NModels == 2
NPoints == 2

\* The longest index list the model follows the while loop to.
MaxRounds == 82

\* iris_test.py:27
max_n_ensemble == 80

Points == 1..NPoints
Labels == {0, 1}
Probas == {0, 1}

\* specific.score is chosen by the event (iris_test.py:15).  The kinds the
\* model draws from: the fraction of points whose predicted label is the
\* true one; minus the squared error of the mean probability; and a score
\* that rates a mean probability of exactly 0 or 1 on the first point worst
\* and otherwise prefers the larger mean (as a log-likelihood does, below
\* its optimum, on a fold where class 1 dominates).
ScoreKinds == {"accuracy", "squared_error", "open_interval"}

\* Sum of a sequence of numbers.
RECURSIVE SumSeq(_)
SumSeq(xs) == IF xs = <<>> THEN 0 ELSE Head(xs) + SumSeq(Tail(xs))

\* Product of a sequence of numbers.
RECURSIVE ProdSeq(_)
ProdSeq(xs) == IF xs = <<>> THEN 1 ELSE Head(xs) * ProdSeq(Tail(xs))

\* range(len(predictions_list)) as a sequence
RangeSeq(n) == [k \in 1..n |-> k - 1]

\* a is not after b: shorter, or as long and not after it entry by entry.
SeqLeq(a, b) ==
    \/ Len(a) < Len(b)
    \/ /\ Len(a) = Len(b)
       /\ \A j \in DOMAIN a :
              (\A i \in DOMAIN a : i < j => a[i] = b[i]) => a[j] <= b[j]

\* What the pool and the ground truth hold at point j.
ColumnOf(pl, gt, j) ==
    [k \in 1..(Cardinality(DOMAIN pl) + 1) |->
        IF k = 1 THEN gt[j] ELSE pl[k - 2][j]]

\* np.nan: an entry of a prediction that is missing or undefined.  It is
\* kept apart from the numbers an entry can hold.
nan == 0 - 1

\* The entry is a number.
IsNumber(x) == x # nan

\* combine_models_using_probas (522-550): the mean of the members' probas,
\* a member counting as many times as the index list names it; an empty
\* index list stands for the full list (540-541).  ndarray.mean (548) gives
\* nan at every point where a member holds nan: those points are listed in
\* the field nan and count for nothing in sum.
combine_models_using_probas(pl, ixs) ==
    LET idx == IF Len(ixs) = 0
               THEN RangeSeq(Cardinality(DOMAIN pl)) ELSE ixs
        times(i) == Cardinality({k \in DOMAIN idx : idx[k] = i})
    IN  [n |-> Len(idx),
         sum |-> [j \in DOMAIN pl[0] |->
                     SumSeq([k \in 1..Cardinality(DOMAIN pl) |->
                                IF IsNumber(pl[k - 1][j])
                                THEN times(k - 1) * pl[k - 1][j] ELSE 0])],
         nan |-> {j \in DOMAIN pl[0] :
                     \E k \in DOMAIN idx : ~IsNumber(pl[idx[k]][j])}]

\* get_y_pred_array (516-518): argmax over the two classes of one point,
\* the first class on a tie.
get_y_pred_array(p) ==
    [j \in DOMAIN p.sum |-> IF 2 * p.sum[j] > p.n THEN 1 ELSE 0]

\* specific.score(ground_truth, predictions): a fraction <<num, den>>
ScoreOf(kind, gt, p) ==
    CASE kind = "accuracy" ->
           <<Cardinality({j \in DOMAIN gt :
                             get_y_pred_array(p)[j] = gt[j]}), 1>>
      [] kind = "squared_error" ->
           LET E(j) == (p.sum[j] - p.n * gt[j]) * (p.sum[j] - p.n * gt[j])
           IN  <<0 - SumSeq([j \in 1..Len(gt) |-> E(j)]), p.n * p.n>>
      [] kind = "open_interval" ->
           IF p.sum[1] = 0 \/ p.sum[1] = p.n THEN <<0 - 1, 1>>
           ELSE <<p.sum[1], p.n>>

\* x > y on scores: x is strictly better than y
Better(x, y) == x[1] * y[2] > y[1] * x[2]

\* (mutation of argmax: the first index that beats no other index)
argmax_worst(scores) ==
    CHOOSE i \in DOMAIN scores :
        /\ \A k \in DOMAIN scores : ~Better(scores[i], scores[k])
        /\ \A k \in DOMAIN scores :
               k < i => Better(scores[k], scores[i])

\* np.argmax(valid_scores) (617): the first index no other index beats
argmax(scores) ==
    CHOOSE i \in DOMAIN scores :
        /\ \A k \in DOMAIN scores : ~Better(scores[k], scores[i])
        /\ \A k \in DOMAIN scores :
               k < i => Better(scores[i], scores[k])

\* best_combine, the for loop (503-509) from index i on; acc holds
\* best_predictions and best_index.
RECURSIVE best_combine_loop(_, _, _, _, _, _)
best_combine_loop(kind, pl, gt, best_indexes, i, acc) ==
    IF i >= Cardinality(DOMAIN pl) THEN acc
    ELSE LET combined_predictions ==
                 combine_models_using_probas(pl, Append(best_indexes, i))
         IN  IF Better(ScoreOf(kind, gt, combined_predictions),
                       ScoreOf(kind, gt, acc.best_predictions))
             THEN best_combine_loop(kind, pl, gt, best_indexes, i + 1,
                      [best_predictions |-> combined_predictions,
                       best_index |-> i])
             ELSE best_combine_loop(kind, pl, gt, best_indexes, i + 1, acc)

\* (mutation of best_combine: best_index starts at 0, not -1)
best_combine_fromZero(kind, pl, gt, best_indexes) ==
    LET r == best_combine_loop(kind, pl, gt, best_indexes, 0,
                 [best_predictions |->
                      combine_models_using_probas(pl, best_indexes),
                  best_index |-> 0])
    IN  IF r.best_index > 0 - 1 THEN Append(best_indexes, r.best_index)
        ELSE best_indexes

\* (mutation of best_combine: the candidate that is not worse is taken)
best_combine_notWorse(kind, pl, gt, best_indexes) ==
    LET cur_score == ScoreOf(kind, gt,
                         combine_models_using_probas(pl, best_indexes))
        ok == {i \in DOMAIN pl :
                  ~Better(cur_score, ScoreOf(kind, gt,
                      combine_models_using_probas(pl,
                          Append(best_indexes, i))))}
    IN  IF ok # {} THEN Append(best_indexes, CHOOSE i \in ok : TRUE)
        ELSE best_indexes

\* (mutation of best_combine: the position in the pool counted from one)
best_combine_oneBased(kind, pl, gt, best_indexes) ==
    LET r == best_combine_loop(kind, pl, gt, best_indexes, 0,
                 [best_predictions |->
                      combine_models_using_probas(pl, best_indexes),
                  best_index |-> 0 - 1])
    IN  IF r.best_index > 0 - 1 THEN Append(best_indexes, r.best_index + 1)
        ELSE best_indexes

\* (mutation of best_combine: the new index is put in front)
best_combine_prepend(kind, pl, gt, best_indexes) ==
    LET r == best_combine_loop(kind, pl, gt, best_indexes, 0,
                 [best_predictions |->
                      combine_models_using_probas(pl, best_indexes),
                  best_index |-> 0 - 1])
    IN  IF r.best_index > 0 - 1 THEN <<r.best_index>> \o best_indexes
        ELSE best_indexes

\* best_combine (481-513)
best_combine(kind, pl, gt, best_indexes) ==
    LET r == best_combine_loop(kind, pl, gt, best_indexes, 0,
                 [best_predictions |->
                      combine_models_using_probas(pl, best_indexes),
                  best_index |-> 0 - 1])
    IN  IF r.best_index > 0 - 1 THEN Append(best_indexes, r.best_index)
        ELSE best_indexes

\* One calibrated prediction of the pool, as a combination of one member
\* (612): what valid_scores scores (615-616).
PredictionsOf(pl, i) == [n |-> 1, sum |-> pl[i]]

\* (mutation of Histogram: an index counts once however often it is named)
Histogram_oncePerList(index_list, n) ==
    [k \in 0..(n - 1) |->
        IF \E q \in DOMAIN index_list : index_list[q] = k THEN 1 ELSE 0]

\* np.histogram(best_index_list, bins=range(n + 1))[0] (710-711): one bin
\* per index, the last one closed on the right.
Histogram(index_list, n) ==
    [k \in 0..(n - 1) |->
        Cardinality({q \in DOMAIN index_list :
            \/ index_list[q] = k
            \/ k = n - 1 /\ index_list[q] = n})]

\* (mutation of SortedByCount: ascending)
SortedByCount_ascending(c) ==
    {lb \in [1..Cardinality(DOMAIN c) -> DOMAIN c] :
        /\ \A a, b \in DOMAIN lb : a # b => lb[a] # lb[b]
        /\ \A a, b \in DOMAIN lb : a < b => c[lb[a]] <= c[lb[b]]}

\* leaderboard.sort(columns=['contributivity'], ascending=False) (725): the
\* orders of the rows the sort may return (rows of equal count in any order)
SortedByCount(c) ==
    {lb \in [1..Cardinality(DOMAIN c) -> DOMAIN c] :
        /\ \A a, b \in DOMAIN lb : a # b => lb[a] # lb[b]
        /\ \A a, b \in DOMAIN lb : a < b => c[lb[a]] >= c[lb[b]]}

\* get_best_index_list up to the while loop (601-619)
GetBestIndexListStart ==
    /\ epc = "start"
    /\ LET valid_scores ==
               [i \in DOMAIN predictions_list |->
                   ScoreOf(score, ground_truth,
                           PredictionsOf(predictions_list, i))]
       IN  best_index_list' = <<argmax(valid_scores)>>
    /\ improvement' = TRUE
    /\ epc' = "loop"
    /\ UNCHANGED <<predictions_list, ground_truth, score,
                   old_best_index_list, counts, leaderboard,
                   storeVars, schedVars, fileVars, fsVars, boardVars>>

\* one round of the while loop (620-624)
WhileRound ==
    /\ epc = "loop"
    /\ improvement
    /\ Len(best_index_list) < MaxRounds
    /\ old_best_index_list' = best_index_list
    /\ best_index_list' =
           best_combine(score, predictions_list, ground_truth,
                        best_index_list)
    /\ improvement' = (Len(best_index_list') # Len(old_best_index_list'))
    /\ UNCHANGED <<predictions_list, ground_truth, score, epc, counts,
                   leaderboard, storeVars, schedVars, fileVars, fsVars,
                   boardVars>>

\* the while loop ends and get_best_index_list returns (625-630)
GetBestIndexListReturn ==
    /\ epc = "loop"
    /\ ~improvement
    /\ epc' = "returned"
    /\ UNCHANGED <<predictions_list, ground_truth, score, best_index_list,
                   old_best_index_list, improvement, counts, leaderboard,
                   storeVars, schedVars, fileVars, fsVars, boardVars>>

\* leaderboard_combination: the counts of this fold's list and the sorted
\* leaderboard (700, 709-711, 724-725)
LeaderboardCombination ==
    /\ epc = "returned"
    /\ counts' = Histogram(best_index_list,
                           Cardinality(DOMAIN predictions_list))
    /\ leaderboard' \in SortedByCount(counts')
    /\ epc' = "ranked"
    /\ UNCHANGED <<predictions_list, ground_truth, score, best_index_list,
                   old_best_index_list, improvement,
                   storeVars, schedVars, fileVars, fsVars, boardVars>>

\* get_scores (445-456): the score of each model of the pool on the fold.
get_scores(kind, pl, gt) ==
    [i \in DOMAIN pl |-> ScoreOf(kind, gt, PredictionsOf(pl, i))]

\* leaderboard.sort(columns=['score']) (479): ascending, the default; the
\* orders of the rows the sort may return under the comparison of the
\* score objects (no row precedes one it is greater, that is better, than;
\* rows of equal score in any order).
SortedByScore(ms) ==
    {lb \in [1..Cardinality(DOMAIN ms) -> DOMAIN ms] :
        /\ \A a, b \in DOMAIN lb : a # b => lb[a] # lb[b]
        /\ \A a, b \in DOMAIN lb : a < b => ~Better(ms[lb[a]], ms[lb[b]])}

\* leaderboard_classical (459-479) over the fold the model follows: the
\* mean of one fold's scores (468) is that fold's scores.
LeaderboardClassical ==
    /\ classical_leaderboard = <<>>
    /\ LET mean_scores == get_scores(score, predictions_list, ground_truth)
       IN  classical_leaderboard' \in SortedByScore(mean_scores)
    /\ UNCHANGED <<storeVars, schedVars, fileVars, ensVars, fsVars,
                   combVars, calVars, contribVars, idVars,
                   stepVars, countVars, cutVars, rowVars>>

(***************************************************************************)
(* generic.py: leaderboard_combination (699-725) over all the folds: the   *)
(* best index list of each fold, the counts summed over the folds, and the *)
(* sorted leaderboard.                                                     *)
(***************************************************************************)

\* The validation points of a fold that leaderboard_combination looks at.
FoldPoints == 1..(NPoints + 1)

\* the while loop of get_best_index_list (619-624), run to its end
RECURSIVE while_improvement(_, _, _, _)
while_improvement(kind, pl, gt, ixs) ==
    LET grown == best_combine(kind, pl, gt, ixs)
    IN  IF Len(grown) # Len(ixs)
        THEN while_improvement(kind, pl, gt, grown)
        ELSE grown

\* get_best_index_list (601-630): the list it returns
get_best_index_list(kind, pl, gt) ==
    while_improvement(kind, pl, gt, <<argmax(get_scores(kind, pl, gt))>>)

\* The lists get_best_index_list returns on a fold for a pool of n models:
\* one for every pool, ground truth and truth-based score.  The points are
\* taken in the order of what they hold: a score does not depend on the
\* order of the points.
ReturnedLists(n) ==
    {get_best_index_list(x[1], x[2], x[3]) :
        x \in {y \in {"accuracy", "squared_error"}
                     \X [0..(n - 1) -> [FoldPoints -> Probas]]
                     \X [FoldPoints -> Labels] :
                  \A j \in FoldPoints :
                      j > 1 => SeqLeq(ColumnOf(y[2], y[3], j - 1),
                                      ColumnOf(y[2], y[3], j))}}

\* leaderboard_combination up to the for loop (699-708): counts is zero for
\* each of the n models; for n > 0 every fold returns its best index list.
LeaderboardCombinationStart ==
    /\ lb_pc = "start"
    /\ \E n \in 0..NModels :
           /\ models_df_shape' = n
           /\ lb_counts' = [i \in 0..(n - 1) |-> 0]
           /\ IF n # 0
              THEN /\ best_index_lists' \in [Folds -> ReturnedLists(n)]
                   /\ lb_pc' = "count"
              ELSE /\ best_index_lists' = <<>>
                   /\ lb_pc' = "sort"
    /\ UNCHANGED <<lb_counted, lb_leaderboard, storeVars, schedVars,
                   fileVars, ensVars, fsVars, combVars, calVars,
                   contribVars, classicalVars, idVars, stepVars, cutVars,
                   rowVars>>

\* one iteration of the for loop (709-711)
CountBestIndexList ==
    /\ lb_pc = "count"
    /\ lb_counted < Len(best_index_lists)
    /\ LET h == Histogram(best_index_lists[lb_counted + 1], models_df_shape)
       IN  lb_counts' = [i \in DOMAIN lb_counts |-> lb_counts[i] + h[i]]
    /\ lb_counted' = lb_counted + 1
    /\ lb_pc' = IF lb_counted' = Len(best_index_lists)
                THEN "sort" ELSE "count"
    /\ UNCHANGED <<models_df_shape, best_index_lists, lb_leaderboard,
                   storeVars, schedVars, fileVars, ensVars, fsVars,
                   combVars, calVars, contribVars, classicalVars, idVars,
                   stepVars, cutVars, rowVars>>

\* the leaderboard is built from counts, sorted and returned (724-725)
LeaderboardCombinationReturn ==
    /\ lb_pc = "sort"
    /\ lb_leaderboard' \in SortedByCount(lb_counts)
    /\ lb_pc' = "returned"
    /\ UNCHANGED <<models_df_shape, best_index_lists, lb_counts, lb_counted,
                   storeVars, schedVars, fileVars, ensVars, fsVars,
                   combVars, calVars, contribVars, classicalVars, idVars,
                   stepVars, cutVars, rowVars>>

(***************************************************************************)
(* generic.py: the error file of a failed submission, written by the       *)
(* except branch of train_and_valid_models (336-344) and of test_models    *)
(* (387-395).  A text is a sequence of characters.                         *)
(***************************************************************************)

\* The longest exception text the model draws.
MaxText == 8

\* The characters of the texts: those of the marker and one other.
Chars == {"-", ">", "x"}

\* '--->'
Marker == <<"-", "-", "-", ">">>

\* text[i:i + len(sub)] == sub, i counted from zero
OccursAt(text, sub, i) ==
    /\ i >= 0
    /\ i + Len(sub) <= Len(text)
    /\ SubSeq(text, i + 1, i + Len(sub)) = sub

\* str.rfind: the highest index where sub occurs, -1 if it does not occur
rfind(text, sub) ==
    IF \E i \in 0..Len(text) : OccursAt(text, sub, i)
    THEN CHOOSE i \in 0..Len(text) :
             /\ OccursAt(text, sub, i)
             /\ \A k \in 0..Len(text) : OccursAt(text, sub, k) => k <= i
    ELSE 0 - 1

\* error_msg as it is written to the file (340-343, 391-394)
cut_exception_text(text) ==
    LET cut == rfind(text, Marker)
    IN  IF cut > 0 THEN SubSeq(text, cut + 1, Len(text))
        ELSE text

\* the except branch of train_and_valid_models writes error.txt (339-344)
WriteErrorTxt ==
    /\ f_name = "none"
    /\ f_name' = "error"
    /\ f_written' = cut_exception_text(exception_text)
    /\ UNCHANGED <<exception_text, storeVars, schedVars, fileVars, ensVars,
                   fsVars, combVars, calVars, contribVars, classicalVars,
                   idVars, stepVars, countVars, rowVars>>

\* the except branch of test_models writes test_error.txt (390-395)
WriteTestErrorTxt ==
    /\ f_name = "none"
    /\ f_name' = "test_error"
    /\ f_written' = cut_exception_text(exception_text)
    /\ UNCHANGED <<exception_text, storeVars, schedVars, fileVars, ensVars,
                   fsVars, combVars, calVars, contribVars, classicalVars,
                   idVars, stepVars, countVars, rowVars>>

(***************************************************************************)
(* The two combiners: model.py, combine_predictions_list (402-449) and     *)
(* generic.py, combine_models_using_probas (522-550), each called once on  *)
(* a list of predictions and an index list.  A combined value is an exact  *)
(* fraction <<num, den>> in lowest terms; <<0, 0>> is nan.                 *)
(***************************************************************************)

\* The longest index list the combiners are given.
MaxIndexes == 3

RECURSIVE GCD(_, _)
GCD(a, b) == IF b = 0 THEN a ELSE GCD(b, a % b)

\* The fraction num / den in lowest terms (den > 0, num >= 0).
Reduce(num, den) == <<num \div GCD(num, den), den \div GCD(num, den)>>

NanValue == <<0, 0>>

\* (mutation of nanmean: the sum of the numbers, np.nansum)
nanmean_asSum(col) ==
    LET numbers == SelectSeq(col, IsNumber)
    IN  IF Len(numbers) = 0 THEN NanValue
        ELSE Reduce(SumSeq(numbers), 1)

\* np.nanmean (448) of one column: the mean of the entries that are
\* numbers, nan when there is none.
nanmean(col) ==
    LET numbers == SelectSeq(col, IsNumber)
    IN  IF Len(numbers) = 0 THEN NanValue
        ELSE Reduce(SumSeq(numbers), Len(numbers))

\* (mutation of combine_predictions_list: the first selected prediction
\* enters the mean twice)
combine_predictions_list_firstTwice(pl, ixs) ==
    LET idx == IF Len(ixs) = 0
               THEN RangeSeq(Cardinality(DOMAIN pl)) ELSE ixs
        y_comb_list == [k \in 1..(Len(idx) + 1) |->
                           IF k = 1 THEN pl[idx[1]] ELSE pl[idx[k - 1]]]
    IN  [j \in Points |->
            nanmean([k \in DOMAIN y_comb_list |-> y_comb_list[k][j]])]

\* combine_predictions_list (402-449): y_comb_list holds the selected
\* predictions in the order of the index list, one row per occurrence
\* (445-446); the result is the nanmean of each column (448).  An index
\* list of None, held as the empty list, stands for the full list (442-443).
combine_predictions_list(pl, ixs) ==
    LET idx == IF Len(ixs) = 0
               THEN RangeSeq(Cardinality(DOMAIN pl)) ELSE ixs
        y_comb_list == [k \in DOMAIN idx |-> pl[idx[k]]]
    IN  [j \in Points |->
            nanmean([k \in DOMAIN y_comb_list |-> y_comb_list[k][j]])]

\* The combinable view of one prediction: y_pred_comb (446), the probas
\* (545).
CombinableView(p) ==
    [j \in Points |-> IF IsNumber(p[j]) THEN <<p[j], 1>> ELSE NanValue]

\* combined_y_probas_array (548-550) as fractions
ProbasArray(c) ==
    [j \in Points |-> IF j \in c.nan THEN NanValue
                      ELSE Reduce(c.sum[j], c.n)]

\* one call of combine_predictions_list
CombinePredictionsList ==
    /\ y_comb = <<>>
    /\ combined_y_probas_array = <<>>
    /\ \E n \in 0..MaxIndexes :
           \E ixs \in [1..n -> DOMAIN predictions_list] :
               /\ y_comb_index_list' = ixs
               /\ y_comb' =
                      combine_predictions_list(predictions_list, ixs)
    /\ UNCHANGED <<indexes, combined_y_probas_array, storeVars, schedVars,
                   fileVars, ensVars, fsVars, calVars, contribVars,
                   classicalVars, idVars,
                   stepVars, countVars, cutVars, rowVars>>

\* one call of combine_models_using_probas
CombineModelsUsingProbas ==
    /\ y_comb = <<>>
    /\ combined_y_probas_array = <<>>
    /\ \E n \in 0..MaxIndexes :
           \E ixs \in [1..n -> DOMAIN predictions_list] :
               /\ indexes' = ixs
               /\ combined_y_probas_array' =
                      ProbasArray(
                          combine_models_using_probas(predictions_list, ixs))
    /\ UNCHANGED <<y_comb_index_list, y_comb, storeVars, schedVars,
                   fileVars, ensVars, fsVars, calVars, contribVars,
                   classicalVars, idVars,
                   stepVars, countVars, cutVars, rowVars>>

(***************************************************************************)
(* One greedy step: model.py get_next_best_single_fold (706-757) and       *)
(* generic.py best_combine (481-513), each called once on the same pool,   *)
(* ground truth and index list.                                            *)
(***************************************************************************)

\* The index lists a step is called on: one or two indices of the pool.
StepLists(pl) == UNION {[1..k -> DOMAIN pl] : k \in 1..2}

\* specific.score(true_predictions, combined_predictions) (736, 745) on the
\* result of combine_predictions_list: the fractions of the points brought
\* to one denominator.
ScoreOfCombined(kind, gt, y) ==
    LET den == ProdSeq([j \in 1..NPoints |-> y[j][2]])
    IN  ScoreOf(kind, gt,
                [n |-> den,
                 sum |-> [j \in Points |-> y[j][1] * (den \div y[j][2])]])

\* get_next_best_single_fold, the for loop (741-752) from index i on; acc
\* holds best_index and best_score.
RECURSIVE next_best_loop(_, _, _, _, _, _)
next_best_loop(kind, pl, gt, ixs, i, acc) ==
    IF i >= Cardinality(DOMAIN pl) THEN acc
    ELSE LET new_score ==
                 ScoreOfCombined(kind, gt,
                     combine_predictions_list(pl,
                         Append(ixs, i)))
         IN  IF Better(new_score, acc.best_score)
             THEN next_best_loop(kind, pl, gt, ixs, i + 1,
                      [best_index |-> i, best_score |-> new_score])
             ELSE next_best_loop(kind, pl, gt, ixs, i + 1, acc)

\* (mutation of get_next_best_single_fold: the score of the list it was
\* called on is returned)
get_next_best_single_fold_oldScore(kind, pl, gt, ixs) ==
    LET r == next_best_loop(kind, pl, gt, ixs, 0,
                 [best_index |-> 0 - 1,
                  best_score |->
                      ScoreOfCombined(kind, gt,
                          combine_predictions_list(pl, ixs))])
    IN  IF r.best_index > 0 - 1
        THEN <<Append(ixs, r.best_index),
               ScoreOfCombined(kind, gt,
                   combine_predictions_list(pl, ixs))>>
        ELSE <<ixs, r.best_score>>

\* get_next_best_single_fold (706-757): the returned list and score
get_next_best_single_fold(kind, pl, gt, ixs) ==
    LET r == next_best_loop(kind, pl, gt, ixs, 0,
                 [best_index |-> 0 - 1,
                  best_score |->
                      ScoreOfCombined(kind, gt,
                          combine_predictions_list(pl, ixs))])
    IN  IF r.best_index > 0 - 1
        THEN <<Append(ixs, r.best_index), r.best_score>>
        ELSE <<ixs, r.best_score>>

\* a call of get_next_best_single_fold
GetNextBestSingleFold ==
    /\ next_best_single_fold = <<>>
    /\ next_best_single_fold' =
           get_next_best_single_fold(score, predictions_list, ground_truth,
                                     step_index_list)
    /\ UNCHANGED <<step_index_list, best_combine_result, storeVars, schedVars,
                   fileVars, ensVars, fsVars, combVars, calVars,
                   contribVars, classicalVars, idVars, countVars, cutVars,
                   rowVars>>

\* a call of best_combine, after the call of get_next_best_single_fold
BestCombine ==
    /\ next_best_single_fold # <<>>
    /\ best_combine_result = <<>>
    /\ best_combine_result' =
           best_combine(score, predictions_list, ground_truth,
                        step_index_list)
    /\ UNCHANGED <<step_index_list, next_best_single_fold, storeVars,
                   schedVars, fileVars, ensVars, fsVars, combVars, calVars,
                   contribVars, classicalVars, idVars, countVars, cutVars,
                   rowVars>>

(***************************************************************************)
(* model.py: Submission.set_contributivity                                 *)
(***************************************************************************)

\* The contributivities a fold holds, and the scores a submission holds.
Contributivities == {0, 1}
BagScores == {0, 1}

\* Submission.is_public_leaderboard (546-550)
is_public_leaderboard(s) ==
    is_valid[s] /\ state[s] \in {"validated", "tested"}

\* Submission.set_contributivity (669-677): 0.0, or a unit of one shared
\* among the folds when the submission is on the public leaderboard.
set_contributivity(s) ==
    IF is_public_leaderboard(s)
    THEN Reduce(SumSeq([f \in Folds |-> fold_contributivity[s][f]]), n_cv)
    ELSE <<0, 1>>

\* a call of set_contributivity on submission s
SetContributivity(s) ==
    /\ contributivity' = [contributivity EXCEPT ![s] = set_contributivity(s)]
    /\ UNCHANGED <<is_valid, is_to_ensemble, fold_contributivity,
                   valid_score_cv_bag, storeVars, schedVars, fileVars,
                   ensVars, fsVars, combVars, calVars, classicalVars, idVars,
                   stepVars, countVars, cutVars, rowVars>>

(***************************************************************************)
(* generic.py: get_hash_string_from_indices (56-70), the identity of a     *)
(* fold: the md5 digest of the buffer of the index array.  A 32-bit word   *)
(* is a pair <<high, low>> of 16-bit halves.                               *)
(***************************************************************************)

\* The longest index sequence the model draws; its buffer fits one block.
MaxTrain == 2

\* The indices a sequence holds: the rows of the training set.
TrainIndices == 0..(NPoints - 1)

Half == 2^16

\* x & y on 16-bit halves
RECURSIVE BitAnd(_, _)
BitAnd(x, y) ==
    IF x = 0 \/ y = 0 THEN 0
    ELSE ((x % 2) * (y % 2)) + (2 * BitAnd(x \div 2, y \div 2))

\* The bitwise operators and the addition modulo 2^32 of md5, on words.
WAnd(x, y) == <<BitAnd(x[1], y[1]), BitAnd(x[2], y[2])>>
WNot(x) == <<Half - 1 - x[1], Half - 1 - x[2]>>
WOr(x, y) == <<x[1] + y[1] - BitAnd(x[1], y[1]),
               x[2] + y[2] - BitAnd(x[2], y[2])>>
WXor(x, y) == <<x[1] + y[1] - 2 * BitAnd(x[1], y[1]),
                x[2] + y[2] - 2 * BitAnd(x[2], y[2])>>
WAdd(x, y) ==
    <<(x[1] + y[1] + ((x[2] + y[2]) \div Half)) % Half,
      (x[2] + y[2]) % Half>>

\* x rotated left by s bits, 0 < s < 32
RotL(x, s) ==
    LET y == IF s >= 16 THEN <<x[2], x[1]>> ELSE x
        r == s % 16
    IN  IF r = 0 THEN y
        ELSE <<((y[1] * 2^r) % Half) + (y[2] \div 2^(16 - r)),
               ((y[2] * 2^r) % Half) + (y[1] \div 2^(16 - r))>>

\* md5: the per-round shifts and the constants floor(2^32 * abs(sin(i + 1)))
md5_shifts ==
    <<7, 12, 17, 22, 7, 12, 17, 22, 7, 12, 17, 22, 7, 12, 17, 22,
      5, 9, 14, 20, 5, 9, 14, 20, 5, 9, 14, 20, 5, 9, 14, 20,
      4, 11, 16, 23, 4, 11, 16, 23, 4, 11, 16, 23, 4, 11, 16, 23,
      6, 10, 15, 21, 6, 10, 15, 21, 6, 10, 15, 21, 6, 10, 15, 21>>

md5_sines ==
    <<<<55146, 42104>>, <<59591, 46934>>, <<9248, 28891>>,
      <<49597, 52974>>, <<62844, 4015>>, <<18311, 50730>>,
      <<43056, 17939>>, <<64838, 38145>>, <<27008, 39128>>,
      <<35652, 63407>>, <<65535, 23473>>, <<35164, 55230>>,
      <<27536, 4386>>, <<64920, 29075>>, <<42617, 17294>>,
      <<18868, 2081>>, <<63006, 9570>>, <<49216, 45888>>,
      <<9822, 23121>>, <<59830, 51114>>, <<54831, 4189>>,
      <<580, 5203>>, <<55457, 59009>>, <<59347, 64456>>,
      <<8673, 52710>>, <<49975, 2006>>, <<62677, 3463>>,
      <<17754, 5357>>, <<43491, 59653>>, <<64751, 41976>>,
      <<26479, 729>>, <<36138, 19594>>, <<65530, 14658>>,
      <<34673, 63105>>, <<28061, 24866>>, <<64997, 14348>>,
      <<42174, 59972>>, <<19422, 53161>>, <<63163, 19296>>,
      <<48831, 48240>>, <<10395, 32454>>, <<60065, 10234>>,
      <<54511, 12421>>, <<1160, 7429>>, <<55764, 53305>>,
      <<59099, 39397>>, <<8098, 31992>>, <<50348, 22117>>,
      <<62505, 8772>>, <<17194, 65431>>, <<43924, 9127>>,
      <<64659, 41017>>, <<25947, 22979>>, <<36620, 52370>>,
      <<65519, 62589>>, <<34180, 24017>>, <<28584, 32335>>,
      <<65068, 59104>>, <<41729, 17172>>, <<19976, 4513>>,
      <<63315, 32386>>, <<48442, 62005>>, <<10967, 53947>>,
      <<60294, 54161>>>>

\* md5: the initial value of the four registers
md5_init == <<<<26437, 8961>>, <<61389, 43913>>,
              <<39098, 56574>>, <<4146, 21622>>>>

\* md5: round i (0..63) on the registers st = <<A, B, C, D>> and the block
\* M of sixteen words.
md5_round(i, st, M) ==
    LET A == st[1]
        B == st[2]
        C == st[3]
        D == st[4]
        F == IF i < 16 THEN WOr(WAnd(B, C), WAnd(WNot(B), D))
             ELSE IF i < 32 THEN WOr(WAnd(D, B), WAnd(WNot(D), C))
             ELSE IF i < 48 THEN WXor(B, WXor(C, D))
             ELSE WXor(C, WOr(B, WNot(D)))
        g == IF i < 16 THEN i
             ELSE IF i < 32 THEN ((5 * i) + 1) % 16
             ELSE IF i < 48 THEN ((3 * i) + 5) % 16
             ELSE (7 * i) % 16
        sum == WAdd(WAdd(A, F), WAdd(md5_sines[i + 1], M[g + 1]))
    IN  <<D, WAdd(B, RotL(sum, md5_shifts[i + 1])), B, C>>

\* md5: rounds i..63 on the four registers st
RECURSIVE md5_rounds(_, _, _)
md5_rounds(i, st, M) ==
    IF i = 64 \/ Len(st) # 4 THEN st
    ELSE md5_rounds(i + 1, md5_round(i, st, M), M)

\* md5 of a message of at most 55 bytes: one block, the message followed by
\* the byte 128, zeros, and the length in bits; the digest is the sixteen
\* bytes of the four registers, low byte first.
md5(bytes) ==
    LET n == Len(bytes)
        block == [k \in 1..64 |->
                     IF k <= n THEN bytes[k]
                     ELSE IF k = n + 1 THEN 128
                     ELSE IF k = 57 THEN (8 * n) % 256
                     ELSE IF k = 58 THEN ((8 * n) \div 256)
                     ELSE 0]
        M == [k \in 1..16 |->
                 <<block[(4 * k) - 1] + (256 * block[4 * k]),
                   block[(4 * k) - 3] + (256 * block[(4 * k) - 2])>>]
        st == md5_rounds(0, md5_init, M)
        out == [k \in 1..4 |-> WAdd(md5_init[k], st[k])]
    IN  [k \in 1..16 |->
            LET word == out[((k - 1) \div 4) + 1]
                j == (k - 1) % 4
            IN  IF j = 0 THEN word[2] % 256
                ELSE IF j = 1 THEN word[2] \div 256
                ELSE IF j = 2 THEN word[1] % 256
                ELSE word[1] \div 256]

\* hexdigest (70): two hexadecimal digits per byte, the high one first; a
\* digit is its value 0..15.
hexdigest(digest) ==
    [k \in 1..(2 * Len(digest)) |->
        IF k % 2 = 1 THEN (digest[(k + 1) \div 2] \div 16)
        ELSE (digest[k \div 2] % 16)]

\* (mutation of ArrayBuffer: the buffer of the sorted array)
ArrayBuffer_sorted(index_list) ==
    [k \in 1..(8 * Len(index_list)) |->
        LET lt(x, y) == x < y
            v == SortSeq(index_list, lt)[((k - 1) \div 8) + 1]
            j == (k - 1) % 8
        IN  IF j < 4 THEN (v \div 256^j) % 256 ELSE 0]

\* hasher.update(index_list) (69) reads the buffer of the array: eight
\* bytes per index (a 64-bit integer), low byte first, in array order.
ArrayBuffer(index_list) ==
    [k \in 1..(8 * Len(index_list)) |->
        LET v == index_list[((k - 1) \div 8) + 1]
            j == (k - 1) % 8
        IN  IF j < 4 THEN (v \div 256^j) % 256 ELSE 0]

\* get_hash_string_from_indices (56-70)
get_hash_string_from_indices(index_list) ==
    hexdigest(md5(ArrayBuffer(index_list)))

\* the k-th call of get_hash_string_from_indices: the first list, the
\* second, then the first again
GetHashString(k) ==
    /\ hash_string[k] = <<>>
    /\ \A j \in 1..(k - 1) : hash_string[j] # <<>>
    /\ hash_string' = [hash_string EXCEPT ![k] =
           get_hash_string_from_indices(train_is[2 - (k % 2)])]
    /\ UNCHANGED <<train_is, storeVars, schedVars, fileVars, ensVars,
                   fsVars, combVars, calVars, contribVars, classicalVars,
                   stepVars, countVars, cutVars, rowVars>>

(***************************************************************************)
(* generic.py: calibrate (586-598) and IsotonicCalibrator (555-577), on    *)
(* four labelled points and two classes.  A probability is a number of     *)
(* fifths; the two columns of a row sum to one.  calibrate is called twice *)
(* on the same probabilities, with a ground truth of its own each time.    *)
(***************************************************************************)

\* The labelled points, the calls of calibrate and the unit of the probas.
CalPoints == 1..4
Calls == {1, 2}
Fifths == Cardinality(CalPoints) + 1

\* The permutations of 1..k: the values of rng.permutation(k).
PermutationsOf(k) ==
    {f \in [1..k -> 1..k] : \A a, b \in 1..k : a # b => f[a] # f[b]}

\* The elements of a set of numbers in increasing order: np.where (the
\* split), np.sort(np.unique(y)) (560).
RECURSIVE Sorted(_)
Sorted(S) ==
    IF S = {} THEN <<>>
    ELSE LET m == CHOOSE x \in S : \A y \in S : x <= y
         IN  <<m>> \o Sorted(S \ {m})

\* StratifiedShuffleSplit(ground_truth, n_iter=1, test_size=0.5,
\* random_state=...) (587-588), first iteration (590): for each class, in
\* order, the generator permutes the points of the class; the first half of
\* them goes to fold1_is and the second half to fold2_is.  The library
\* refuses a class of one member, and the model draws no such ground truth:
\* a class has two or four members here.
\* g is the ground truth and r the permutations the generator draws, one
\* per class.
StratifiedShuffleSplit(g, r) ==
    LET classes == Sorted({g[p] : p \in CalPoints})
        members(i) == Sorted({p \in CalPoints : g[p] = classes[i]})
        cls(i) == [k \in DOMAIN members(i) |-> members(i)[r[i][k]]]
        n(i) == Len(members(i)) \div 2
    IN  [fold1_is |-> UNION {{cls(i)[k] : k \in 1..n(i)} :
                                i \in DOMAIN classes},
         fold2_is |-> UNION {{cls(i)[k] : k \in (n(i) + 1)..(2 * n(i))} :
                                i \in DOMAIN classes}]

\* IsotonicRegression(y_min=0., y_max=1., out_of_bounds='clip').fit (562-
\* 566) on the two points of a half: lo is the point of smaller x.  The
\* fitted values are kept in halves (0, 1 or 2): the indicators when they
\* increase with x, their mean at both points when they do not.
IsotonicFit(a, b, x, ind) ==
    LET lo == IF x[a] < x[b] THEN a ELSE b
        hi == IF x[a] < x[b] THEN b ELSE a
    IN  IF ind[lo] <= ind[hi]
        THEN [xl |-> x[lo], xh |-> x[hi],
              fl |-> 2 * ind[lo], fh |-> 2 * ind[hi]]
        ELSE [xl |-> x[lo], xh |-> x[hi],
              fl |-> ind[lo] + ind[hi], fh |-> ind[lo] + ind[hi]]

\* IsotonicCalibrator.fit (559-568) on the points of the set T: a
\* calibrator per column, or the IndexError of labels[class_index] (566)
\* read past the labels the half holds.
fit(X, y, T) ==
    LET labels == Sorted({y[p] : p \in T})
        a == CHOOSE p \in T : TRUE
        b == CHOOSE p \in T : p # a
        column(c) == [p \in T |-> X[p][c + 1]]
        class_indicator(c) ==
            [p \in T |-> IF y[p] = labels[c + 1] THEN 1 ELSE 0]
    IN  IF Len(labels) < 2
        THEN [raised |-> "IndexError", calibrators |-> <<>>]
        ELSE [raised |-> "none",
              calibrators |->
                  [c \in {0, 1} |->
                      IsotonicFit(a, b, column(c), class_indicator(c))]]

\* calibrator.predict (571-572) of one value: the line between the two
\* fitted points, clipped outside them; a fraction <<num, den>>.
IsotonicPredict(cal, x) ==
    IF x <= cal.xl THEN <<cal.fl, 2>>
    ELSE IF x >= cal.xh THEN <<cal.fh, 2>>
    ELSE <<cal.fl * (cal.xh - cal.xl) + (cal.fh - cal.fl) * (x - cal.xl),
           2 * (cal.xh - cal.xl)>>

\* IsotonicCalibrator.predict (570-577) of one row: the calibrated value of
\* each column divided by their sum (573-576); 0 / 0 is nan.
predict(calibrators, row) ==
    LET c0 == IsotonicPredict(calibrators[0], row[1])
        c1 == IsotonicPredict(calibrators[1], row[2])
        sum_rows == c0[1] * c1[2] + c1[1] * c0[2]
    IN  IF sum_rows = 0 THEN <<NanValue, NanValue>>
        ELSE <<Reduce(c0[1] * c1[2], sum_rows),
               Reduce(c1[1] * c0[2], sum_rows)>>

\* (mutation of calibrate: each half is calibrated by the calibrator fitted
\* on that same half)
calibrate_sameHalf(X, g, r) ==
    LET skf == StratifiedShuffleSplit(g, r)
        fit1 == fit(X, g, skf.fold1_is)
        fit2 == fit(X, g, skf.fold2_is)
    IN  IF fit1.raised = "IndexError" \/ fit2.raised = "IndexError"
        THEN [folds |-> skf, raised |-> "IndexError", result |-> <<>>]
        ELSE [folds |-> skf, raised |-> "none",
              result |-> [p \in CalPoints |->
                             IF p \in skf.fold1_is THEN predict(fit1.calibrators, X[p])
                             ELSE predict(fit2.calibrators, X[p])]]

\* calibrate (586-598): the calibrator fitted on fold1_is calibrates the
\* points of fold2_is, then the one fitted on fold2_is those of fold1_is.
calibrate(X, g, r) ==
    LET skf == StratifiedShuffleSplit(g, r)
        fit1 == fit(X, g, skf.fold1_is)
        fit2 == fit(X, g, skf.fold2_is)
    IN  IF fit1.raised = "IndexError" \/ fit2.raised = "IndexError"
        THEN [folds |-> skf, raised |-> "IndexError", result |-> <<>>]
        ELSE [folds |-> skf, raised |-> "none",
              result |-> [p \in CalPoints |->
                             IF p \in skf.fold2_is THEN predict(fit1.calibrators, X[p])
                             ELSE predict(fit2.calibrators, X[p])]]

\* one call of calibrate
Calibrate(c) ==
    /\ raised[c] = "not_called"
    /\ LET out == calibrate(y_probas_array, cal_ground_truth[c], rng)
       IN  /\ folds' = [folds EXCEPT ![c] = out.folds]
           /\ raised' = [raised EXCEPT ![c] = out.raised]
           /\ calibrated_proba_array' =
                  [calibrated_proba_array EXCEPT ![c] = out.result]
    /\ UNCHANGED <<y_probas_array, cal_ground_truth, rng, storeVars,
                   schedVars, fileVars, ensVars, fsVars, combVars,
                   contribVars, classicalVars, idVars,
                   stepVars, countVars, cutVars, rowVars>>

(***************************************************************************)
(* generic.py: the paths the fold workers of one submission touch while    *)
(* train_and_valid_on_fold runs in parallel (get_f_dir, train_on_fold).    *)
(***************************************************************************)

\* The sub-directories a worker asks get_f_dir for, in order: train_time
\* (216), model (220), valid (260), valid_time (262).
WorkerDirs == <<"train_time", "model", "valid", "valid_time">>

\* Where a fold worker stands: at "start", at "done" or at "raised_mkdir"
\* (k is then the number of get_f_name calls it went through), or inside its
\* k-th get_f_name call: before os.path.exists (123), before os.mkdir (124),
\* or before the open of the file (217, 220, 261, 262).
WorkerPcs ==
    [k : 0..Len(WorkerDirs),
     at : {"start", "exists", "mkdir", "open", "done", "raised_mkdir"}]

\* train_on_fold: open(.../__init__.py, 'a').close() (209)
TouchInit(f) ==
    /\ wpc[f].at = "start"
    /\ wrote' = [wrote EXCEPT ![f] = @ \cup {<<"__init__.py", 0>>}]
    /\ wpc' = [wpc EXCEPT ![f] = [k |-> 1, at |-> "exists"]]
    /\ UNCHANGED <<dirs, storeVars, schedVars, fileVars, ensVars, boardVars>>

\* get_f_dir: os.path.exists(dir) (123)
DirExists(f) ==
    /\ wpc[f].at = "exists"
    /\ wpc' = [wpc EXCEPT ![f].at =
           IF WorkerDirs[wpc[f].k] \in dirs THEN "open" ELSE "mkdir"]
    /\ UNCHANGED <<dirs, wrote, storeVars, schedVars, fileVars, ensVars,
                   boardVars>>

\* get_f_dir: os.mkdir(dir) (124), OSError when the directory exists
Mkdir(f) ==
    /\ wpc[f].at = "mkdir"
    /\ IF WorkerDirs[wpc[f].k] \in dirs
       THEN /\ wpc' = [wpc EXCEPT ![f].at = "raised_mkdir"]
            /\ UNCHANGED <<dirs, wrote>>
       ELSE /\ dirs' = dirs \cup {WorkerDirs[wpc[f].k]}
            /\ wrote' = [wrote EXCEPT ![f] =
                   @ \cup {<<WorkerDirs[wpc[f].k], 0>>}]
            /\ wpc' = [wpc EXCEPT ![f].at = "open"]
    /\ UNCHANGED <<storeVars, schedVars, fileVars, ensVars, boardVars>>

\* the file <dir>/<hash of the fold> is opened for writing (217, 220, 261,
\* 262); the hash string names the fold (56-70).  A path is <<name, 0>> for
\* an entry of full_model_path and <<dir, f>> for the file of fold f in dir.
OpenFile(f) ==
    /\ wpc[f].at = "open"
    /\ wrote' = [wrote EXCEPT ![f] = @ \cup {<<WorkerDirs[wpc[f].k], f>>}]
    /\ wpc' = [wpc EXCEPT ![f] =
           IF @.k = Len(WorkerDirs) THEN [k |-> @.k, at |-> "done"]
           ELSE [k |-> @.k + 1, at |-> "exists"]]
    /\ UNCHANGED <<dirs, storeVars, schedVars, fileVars, ensVars, boardVars>>

(***************************************************************************)
(* Initial states                                                          *)
(***************************************************************************)

\* The column defaults (model.py:506-507, 809-818): the store after the
\* submissions and their folds are created.
InitStore ==
    /\ state = [s \in Submissions |-> "new"]
    /\ error_msg = [s \in Submissions |-> NoMsg]
    /\ training_timestamp = [s \in Submissions |-> "None"]
    /\ fold_state = [s \in Submissions |-> [f \in Folds |-> "new"]]
    /\ fold_error_msg = [s \in Submissions |-> [f \in Folds |-> NoMsg]]
    /\ full_train_predictions =
           [s \in Submissions |-> [f \in Folds |-> "None"]]
    /\ test_predictions = [s \in Submissions |-> [f \in Folds |-> "None"]]
    /\ aggregated = [s \in Submissions |-> FALSE]
    /\ prev_state = [s \in Submissions |-> "new"]
    /\ prev_error_msg = [s \in Submissions |-> NoMsg]

\* The scheduler before its first call: no file was written yet; a row of
\* the models table is fresh or marked "ignore".
InitSched ==
    /\ df_state \in [Submissions -> {"new", "ignore"}]
    /\ pass = "none"
    /\ pc = "idle"
    /\ queue = <<>>
    /\ cur = "none"
    /\ ran = {}
    /\ visited = {}
    /\ task = [s \in Submissions |-> [f \in Folds |-> "pending"]]
    /\ n_train = [s \in Submissions |-> [f \in Folds |-> 0]]
    /\ cache_miss = [s \in Submissions |-> [f \in Folds |-> FALSE]]
    /\ model_file = [s \in Submissions |-> [f \in Folds |-> "absent"]]
    /\ valid_file = [s \in Submissions |-> [f \in Folds |-> "absent"]]
    /\ test_file = [s \in Submissions |-> [f \in Folds |-> "absent"]]
    /\ error_txt = [s \in Submissions |-> "absent"]
    /\ test_error_txt = [s \in Submissions |-> "absent"]

\* get_best_index_list before it is called on a pool of n models: which
\* pool and ground truth it is given, and which of the scores K the event
\* configures.
InitEns(K) ==
    /\ \E n \in 1..NModels :
           predictions_list \in [0..(n - 1) -> [Points -> Probas]]
    /\ ground_truth \in [Points -> Labels]
    /\ score \in K
    /\ best_index_list = <<>>
    /\ old_best_index_list = <<>>
    /\ improvement = FALSE
    /\ epc = "start"
    /\ counts = <<>>
    /\ leaderboard = <<>>

\* The ensemble engine at rest, for the other specifications.
EnsAtRest ==
    /\ predictions_list = [i \in {0} |-> [j \in Points |-> 0]]
    /\ ground_truth = [j \in Points |-> 0]
    /\ score = "accuracy"
    /\ best_index_list = <<>>
    /\ old_best_index_list = <<>>
    /\ improvement = FALSE
    /\ epc = "start"
    /\ counts = <<>>
    /\ leaderboard = <<>>

\* p comes before q, or is q, in the lexicographic order of the entries.
LexLeq(p, q) ==
    \A j \in Points : (\A i \in Points : i < j => p[i] = q[i]) => p[j] <= q[j]

\* The combiners before they are called on a list of n predictions whose
\* entries are numbers or nan.  The combiners treat the members of the list
\* alike, so the list is drawn up to the order of its members: every index
\* list over it is tried.
InitComb ==
    /\ \E n \in 1..NModels :
           predictions_list \in
               {pl \in [0..(n - 1) -> [Points -> Probas \cup {nan}]] :
                   \A i \in 0..(n - 2) : LexLeq(pl[i], pl[i + 1])}
    /\ y_comb_index_list = <<>>
    /\ y_comb = <<>>
    /\ indexes = <<>>
    /\ combined_y_probas_array = <<>>
    /\ ground_truth = [j \in Points |-> 0]
    /\ score = "accuracy"
    /\ best_index_list = <<>>
    /\ old_best_index_list = <<>>
    /\ improvement = FALSE
    /\ epc = "start"
    /\ counts = <<>>
    /\ leaderboard = <<>>

\* The combiners never called, for the other specifications.
CombAtRest ==
    /\ y_comb_index_list = <<>>
    /\ y_comb = <<>>
    /\ indexes = <<>>
    /\ combined_y_probas_array = <<>>

\* The number of members of each class of a ground truth, in class order.
ClassCounts(g) ==
    LET classes == Sorted({g[p] : p \in CalPoints})
    IN  [i \in DOMAIN classes |->
            Cardinality({p \in CalPoints : g[p] = classes[i]})]

\* calibrate before its two calls: the probabilities of class 1 are one to
\* four fifths, no two points alike (the library's treatment of equal
\* values is left out).  The split accepts no class of one member, so the
\* classes have two members each or there is one class of four; the
\* generator is seeded with random_state in both calls and asked for
\* permutations of the same sizes, so it draws the same ones in both.
InitCal ==
    /\ \E q \in PermutationsOf(4) :
           y_probas_array = [p \in CalPoints |-> <<Fifths - q[p], q[p]>>]
    /\ \E cls_count \in {<<2, 2>>, <<4>>} :
           /\ cal_ground_truth \in
                  [Calls -> {g \in [CalPoints -> Labels] :
                                ClassCounts(g) = cls_count}]
           /\ rng \in [DOMAIN cls_count -> PermutationsOf(cls_count[1])]
    /\ folds = [c \in Calls |-> [fold1_is |-> {}, fold2_is |-> {}]]
    /\ calibrated_proba_array = [c \in Calls |-> <<>>]
    /\ raised = [c \in Calls |-> "not_called"]

\* calibrate never called, for the other specifications.
CalAtRest ==
    /\ y_probas_array = <<>>
    /\ cal_ground_truth = <<>>
    /\ rng = <<>>
    /\ folds = <<>>
    /\ calibrated_proba_array = <<>>
    /\ raised = <<>>

\* leaderboard_classical never called.
ClassicalAtRest == classical_leaderboard = <<>>

\* The ensembling columns of the submissions as created: the column
\* defaults (model.py:504, 509, 512, 804).
ContribAtRest ==
    /\ is_valid = [s \in Submissions |-> TRUE]
    /\ is_to_ensemble = [s \in Submissions |-> TRUE]
    /\ contributivity = [s \in Submissions |-> <<0, 1>>]
    /\ fold_contributivity = [s \in Submissions |-> [f \in Folds |-> 0]]
    /\ valid_score_cv_bag = [s \in Submissions |-> 0]

\* Inputs of set_contributivity for submission A: any state, either value
\* of the two flags, any contributivity of its folds and any score.  B is
\* as created.
InitContrib ==
    /\ state \in {[s \in Submissions |-> IF s = "A" THEN p ELSE "new"] :
                     p \in submission_states}
    /\ is_valid \in {[s \in Submissions |-> IF s = "A" THEN v ELSE TRUE] :
                        v \in BOOLEAN}
    /\ is_to_ensemble \in
           {[s \in Submissions |-> IF s = "A" THEN v ELSE TRUE] :
               v \in BOOLEAN}
    /\ contributivity = [s \in Submissions |-> <<0, 1>>]
    /\ fold_contributivity \in
           {[s \in Submissions |->
                IF s = "A" THEN fc ELSE [f \in Folds |-> 0]] :
            fc \in [Folds -> Contributivities]}
    /\ valid_score_cv_bag \in
           {[s \in Submissions |-> IF s = "A" THEN v ELSE 0] :
               v \in BagScores}

\* get_hash_string_from_indices never called.
IdAtRest == train_is = <<>> /\ hash_string = <<>>

\* Sequences of at most n elements of S.
SeqUpTo(S, n) == UNION {[1..k -> S] : k \in 0..n}

\* Two index lists, the first not after the second, and no call yet.
InitId ==
    /\ train_is \in {pair \in [1..2 -> SeqUpTo(TrainIndices, MaxTrain)] :
                        SeqLeq(pair[1], pair[2])}
    /\ hash_string = [k \in 1..3 |-> <<>>]

\* No greedy step called on its own.
StepAtRest ==
    /\ step_index_list = <<>>
    /\ next_best_single_fold = <<>>
    /\ best_combine_result = <<>>

\* A pool, a ground truth and a score as get_best_index_list meets them,
\* and an index list for the step.  The points are taken in the order of
\* what they hold: a score does not depend on the order of the points.
InitStep ==
    /\ InitEns({"accuracy", "squared_error"})
    /\ \A j \in Points :
           j > 1 => SeqLeq(ColumnOf(predictions_list, ground_truth, j - 1),
                           ColumnOf(predictions_list, ground_truth, j))
    /\ step_index_list \in StepLists(predictions_list)
    /\ next_best_single_fold = <<>>
    /\ best_combine_result = <<>>

\* leaderboard_combination not called.
CountAtRest ==
    /\ models_df_shape = 0
    /\ best_index_lists = <<>>
    /\ lb_counts = <<>>
    /\ lb_counted = 0
    /\ lb_leaderboard = <<>>
    /\ lb_pc = "start"

\* No exception caught.
CutAtRest ==
    /\ exception_text = <<>>
    /\ f_name = "none"
    /\ f_written = <<>>

\* An exception was caught: its text, of any length up to MaxText.
InitCut ==
    /\ exception_text \in SeqUpTo(Chars, MaxText)
    /\ f_name = "none"
    /\ f_written = <<>>

\* A row as it is created (808-819).
NewRow ==
    [state |-> "new", error_msg |-> NoMsg,
     train_time |-> "0.0", valid_time |-> "0.0", test_time |-> "0.0",
     full_train_predictions |-> "None", test_predictions |-> "None",
     train_score |-> "0.0", valid_score |-> "0.0", test_score |-> "0.0"]

\* update not called on the row.
RowAtRest ==
    /\ on_cv_fold = NewRow
    /\ on_cv_fold_before = NewRow
    /\ detached_on_cv_fold = NewRow
    /\ update_called = FALSE

\* A row of any content, before update is called on it.
InitRow ==
    /\ on_cv_fold \in Rows
    /\ on_cv_fold_before = on_cv_fold
    /\ detached_on_cv_fold = NewRow
    /\ update_called = FALSE

\* The leaderboard side at rest.
BoardAtRest ==
    /\ CombAtRest /\ CalAtRest /\ ContribAtRest /\ ClassicalAtRest
    /\ IdAtRest /\ StepAtRest /\ CountAtRest /\ CutAtRest /\ RowAtRest

\* The fold workers of one submission as Parallel starts them: the
\* submission is fresh (no sub-directory yet) or was run before.
InitFs ==
    /\ dirs \in {{}, {WorkerDirs[k] : k \in DOMAIN WorkerDirs}}
    /\ wpc = [f \in Folds |-> [k |-> 0, at |-> "start"]]
    /\ wrote = [f \in Folds |-> {}]

\* The scheduler and the rest of generic.py at rest, for the specifications
\* of the store.
SchedAtRest ==
    /\ InitSched
    /\ df_state = [s \in Submissions |-> "new"]
    /\ EnsAtRest
    /\ InitFs
    /\ dirs = {}
    /\ BoardAtRest

\* Inputs of set_state_after_training for submission A: any previous state
\* and message, any list of fold states and messages.  B is as created.
InitAgg ==
    /\ state \in {[s \in Submissions |-> IF s = "A" THEN p ELSE "new"] :
                     p \in submission_states}
    /\ error_msg \in {[s \in Submissions |-> IF s = "A" THEN m ELSE NoMsg] :
                     m \in Msgs}
    /\ training_timestamp = [s \in Submissions |-> "None"]
    /\ fold_state \in {[s \in Submissions |->
                           IF s = "A" THEN fs ELSE [f \in Folds |-> "new"]] :
                       fs \in [Folds -> submission_states]}
    /\ fold_error_msg \in {[s \in Submissions |->
                           IF s = "A" THEN fm ELSE [f \in Folds |-> NoMsg]] :
                       fm \in [Folds -> Msgs]}
    /\ full_train_predictions =
           [s \in Submissions |-> [f \in Folds |-> "None"]]
    /\ test_predictions = [s \in Submissions |-> [f \in Folds |-> "None"]]
    /\ aggregated = [s \in Submissions |-> FALSE]
    /\ prev_state = state
    /\ prev_error_msg = error_msg

\* Inputs of set_state_after_training for submissions that have no fold
\* records (on_cv_folds is empty): any previous state and message.
InitNoFolds ==
    /\ state \in [Submissions -> submission_states]
    /\ error_msg \in [Submissions -> Msgs]
    /\ training_timestamp = [s \in Submissions |-> "None"]
    /\ fold_state = [s \in Submissions |-> <<>>]
    /\ fold_error_msg = [s \in Submissions |-> <<>>]
    /\ full_train_predictions = [s \in Submissions |-> <<>>]
    /\ test_predictions = [s \in Submissions |-> <<>>]
    /\ aggregated = [s \in Submissions |-> FALSE]
    /\ prev_state = state
    /\ prev_error_msg = error_msg

\* Inputs of set_state_after_training for two submissions whose folds hold
\* the same list of states: the previous states and messages are independent.
InitPair ==
    /\ state \in [Submissions -> submission_states]
    /\ error_msg \in [Submissions -> Msgs]
    /\ training_timestamp = [s \in Submissions |-> "None"]
    /\ fold_state \in {[s \in Submissions |-> fs] :
                       fs \in [Folds -> submission_states]}
    /\ fold_error_msg = [s \in Submissions |-> [f \in Folds |-> NoMsg]]
    /\ full_train_predictions =
           [s \in Submissions |-> [f \in Folds |-> "None"]]
    /\ test_predictions = [s \in Submissions |-> [f \in Folds |-> "None"]]
    /\ aggregated = [s \in Submissions |-> FALSE]
    /\ prev_state = state
    /\ prev_error_msg = error_msg

(***************************************************************************)
(* Actions and specifications of the store                                 *)
(***************************************************************************)

\* One call of set_state_after_training on a submission not yet aggregated.
Aggregate(s) ==
    /\ ~aggregated[s]
    /\ set_state_after_training(s)

SetState(s) ==
    \E st \in submission_states : set_state(s, st)

Update(s) ==
    \E f \in Folds, d \in Detached : update(s, f, d)

NextAgg == Aggregate("A")
InitAggSpec == InitAgg /\ SchedAtRest
SpecAgg == InitAggSpec /\ [][NextAgg]_vars

NextNoFolds == \E s \in Submissions : Aggregate(s)
InitNoFoldsSpec == InitNoFolds /\ SchedAtRest
SpecNoFolds == InitNoFoldsSpec /\ [][NextNoFolds]_vars

NextPair == \E s \in Submissions : Aggregate(s)
InitPairSpec == InitPair /\ SchedAtRest
SpecPair == InitPairSpec /\ [][NextPair]_vars

NextUpdate == Update("A")
InitStoreSpec == InitStore /\ SchedAtRest
SpecUpdate == InitStoreSpec /\ [][NextUpdate]_vars

NextFold == Update("A") \/ SetState("A")
SpecFold == InitStoreSpec /\ [][NextFold]_vars

(***************************************************************************)
(* Specification of the scheduler: the operator calls train_and_valid_models*)
(* and test_models, in any order, on the same models table.                *)
(***************************************************************************)
NextSched ==
    \/ StartPass("train")
    \/ StartPass("test")
    \/ SkipIgnored
    \/ BeginSubmission
    \/ \E f \in Folds : TrainStep(f)
    \/ \E f \in Folds : ValidStep(f)
    \/ \E f \in Folds : LoadStep(f)
    \/ \E f \in Folds : RetrainStep(f)
    \/ \E f \in Folds : TestStep(f)
    \/ ParallelReturn
    \/ ParallelRaise
    \/ EndPass

InitSchedSpec ==
    InitStore /\ InitSched /\ EnsAtRest /\ InitFs /\ dirs = {} /\ BoardAtRest
SpecSched == InitSchedSpec /\ [][NextSched]_vars

(***************************************************************************)
(* Specification of the greedy ensemble of one fold                        *)
(***************************************************************************)
NextEns ==
    \/ GetBestIndexListStart
    \/ WhileRound
    \/ GetBestIndexListReturn
    \/ LeaderboardCombination

\* The scores computed from the ground truth: every chain of strict
\* improvements ends.
InitEnsSpec ==
    InitStore /\ InitSched /\ df_state = [s \in Submissions |-> "new"]
    /\ InitEns({"accuracy", "squared_error"}) /\ InitFs /\ dirs = {}
    /\ BoardAtRest
SpecEns == InitEnsSpec /\ [][NextEns]_vars

\* The score under which a chain of strict improvements need not end.
InitEnsOpenSpec ==
    InitStore /\ InitSched /\ df_state = [s \in Submissions |-> "new"]
    /\ InitEns({"open_interval"}) /\ InitFs /\ dirs = {}
    /\ BoardAtRest
SpecEnsOpen == InitEnsOpenSpec /\ [][NextEns]_vars

(***************************************************************************)
(* Specification of the fold workers of one submission on the file system  *)
(***************************************************************************)
NextFs ==
    \/ \E f \in Folds : TouchInit(f)
    \/ \E f \in Folds : DirExists(f)
    \/ \E f \in Folds : Mkdir(f)
    \/ \E f \in Folds : OpenFile(f)

InitFsSpec ==
    InitStore /\ InitSched /\ df_state = [s \in Submissions |-> "new"]
    /\ EnsAtRest /\ InitFs /\ BoardAtRest
SpecFs == InitFsSpec /\ [][NextFs]_vars

(***************************************************************************)
(* Specification of the combiners: one call of either on any list          *)
(***************************************************************************)
NextComb ==
    \/ CombinePredictionsList
    \/ CombineModelsUsingProbas

InitCombSpec ==
    /\ InitStore /\ InitSched /\ df_state = [s \in Submissions |-> "new"]
    /\ InitComb /\ InitFs /\ dirs = {} /\ CalAtRest
    /\ ContribAtRest /\ ClassicalAtRest /\ IdAtRest /\ StepAtRest
    /\ CountAtRest /\ CutAtRest /\ RowAtRest
SpecComb == InitCombSpec /\ [][NextComb]_vars

(***************************************************************************)
(* Specification of the calibrator: two calls of calibrate                 *)
(***************************************************************************)
NextCal == \E c \in Calls : Calibrate(c)

InitCalSpec ==
    /\ InitStore /\ InitSched /\ df_state = [s \in Submissions |-> "new"]
    /\ EnsAtRest /\ InitFs /\ dirs = {} /\ CombAtRest /\ InitCal
    /\ ContribAtRest /\ ClassicalAtRest /\ IdAtRest /\ StepAtRest
    /\ CountAtRest /\ CutAtRest /\ RowAtRest
SpecCal == InitCalSpec /\ [][NextCal]_vars

(***************************************************************************)
(* Specification of set_contributivity on one submission                   *)
(***************************************************************************)
NextContrib == SetContributivity("A")

InitContribSpec ==
    /\ InitContrib
    /\ error_msg = [s \in Submissions |-> NoMsg]
    /\ training_timestamp = [s \in Submissions |-> "None"]
    /\ fold_state = [s \in Submissions |-> [f \in Folds |-> "new"]]
    /\ fold_error_msg = [s \in Submissions |-> [f \in Folds |-> NoMsg]]
    /\ full_train_predictions =
           [s \in Submissions |-> [f \in Folds |-> "None"]]
    /\ test_predictions = [s \in Submissions |-> [f \in Folds |-> "None"]]
    /\ aggregated = [s \in Submissions |-> FALSE]
    /\ prev_state = state
    /\ prev_error_msg = error_msg
    /\ InitSched /\ df_state = [s \in Submissions |-> "new"]
    /\ EnsAtRest /\ InitFs /\ dirs = {}
    /\ CombAtRest /\ CalAtRest /\ ClassicalAtRest /\ IdAtRest /\ StepAtRest
    /\ CountAtRest /\ CutAtRest /\ RowAtRest
SpecContrib == InitContribSpec /\ [][NextContrib]_vars

(***************************************************************************)
(* Specification of the fold identity: three calls on two index lists      *)
(***************************************************************************)
NextId == \E k \in 1..3 : GetHashString(k)

InitIdSpec ==
    /\ InitStore /\ InitSched /\ df_state = [s \in Submissions |-> "new"]
    /\ EnsAtRest /\ InitFs /\ dirs = {} /\ CombAtRest /\ CalAtRest
    /\ ContribAtRest /\ ClassicalAtRest /\ InitId /\ StepAtRest
    /\ CountAtRest /\ CutAtRest /\ RowAtRest
SpecId == InitIdSpec /\ [][NextId]_vars

(***************************************************************************)
(* Specification of one greedy step by each of its two implementations     *)
(***************************************************************************)
NextStep == GetNextBestSingleFold \/ BestCombine

InitStepSpec ==
    /\ InitStore /\ InitSched /\ df_state = [s \in Submissions |-> "new"]
    /\ InitStep /\ InitFs /\ dirs = {} /\ CombAtRest /\ CalAtRest
    /\ ContribAtRest /\ ClassicalAtRest /\ IdAtRest /\ CountAtRest
    /\ CutAtRest /\ RowAtRest
SpecStep == InitStepSpec /\ [][NextStep]_vars

(***************************************************************************)
(* Specification of leaderboard_combination over all the folds             *)
(***************************************************************************)
NextCount ==
    \/ LeaderboardCombinationStart
    \/ CountBestIndexList
    \/ LeaderboardCombinationReturn

InitCountSpec ==
    /\ InitStore /\ InitSched /\ df_state = [s \in Submissions |-> "new"]
    /\ EnsAtRest /\ InitFs /\ dirs = {} /\ BoardAtRest
SpecCount == InitCountSpec /\ [][NextCount]_vars

(***************************************************************************)
(* Specification of the error file of a failed submission                  *)
(***************************************************************************)
NextCut == WriteErrorTxt \/ WriteTestErrorTxt

InitCutSpec ==
    /\ InitStore /\ InitSched /\ df_state = [s \in Submissions |-> "new"]
    /\ EnsAtRest /\ InitFs /\ dirs = {}
    /\ CombAtRest /\ CalAtRest /\ ContribAtRest /\ ClassicalAtRest
    /\ IdAtRest /\ StepAtRest /\ CountAtRest /\ InitCut /\ RowAtRest
SpecCut == InitCutSpec /\ [][NextCut]_vars

(***************************************************************************)
(* Specification of one call of update on a fold row of any content        *)
(***************************************************************************)
NextRow == UpdateRow

InitRowSpec ==
    /\ InitStore /\ InitSched /\ df_state = [s \in Submissions |-> "new"]
    /\ EnsAtRest /\ InitFs /\ dirs = {}
    /\ CombAtRest /\ CalAtRest /\ ContribAtRest /\ ClassicalAtRest
    /\ IdAtRest /\ StepAtRest /\ CountAtRest /\ CutAtRest /\ InitRow
SpecRow == InitRowSpec /\ [][NextRow]_vars

(***************************************************************************)
(* Specification of the two leaderboards over one pool and fold            *)
(***************************************************************************)
NextBoard == NextEns \/ LeaderboardClassical

SpecBoard == InitEnsSpec /\ [][NextBoard]_vars

(***************************************************************************)
(* Properties of the aggregation (model.py, set_state_after_training)      *)
(***************************************************************************)

\* The states the folds of s hold, as a set, and the first fold in a state.
FoldStateSet(s) == {fold_state[s][f] : f \in Folds}
FirstFoldIn(s, S) ==
    CHOOSE f \in Folds :
        /\ fold_state[s][f] \in S
        /\ \A g \in Folds : g < f => fold_state[s][g] \notin S

StageErrors == {"training_error", "validating_error", "testing_error"}
AllErrors == StageErrors \cup {"checking_error"}

\* C1: after set_state_after_training on a non-empty list of fold states the
\* submission state is 'tested' if all folds are tested; else 'validated' if
\* all are in {tested, validated}; else 'trained' if all are in {tested,
\* validated, trained}; else 'training_error' if any fold is training_error;
\* else 'validating_error' if any is validating_error; else 'testing_error'
\* if any is testing_error.
C1_AggregationRule ==
    \A s \in Submissions :
        aggregated[s] =>
            LET FS == FoldStateSet(s) IN
            /\ FS \subseteq {"tested"} => state[s] = "tested"
            /\ (FS \subseteq {"tested", "validated"} /\ "validated" \in FS)
                   => state[s] = "validated"
            /\ (FS \subseteq {"tested", "validated", "trained"}
                  /\ "trained" \in FS) => state[s] = "trained"
            /\ ~(FS \subseteq {"tested", "validated", "trained"}) =>
                  /\ "training_error" \in FS => state[s] = "training_error"
                  /\ ("training_error" \notin FS /\ "validating_error" \in FS)
                         => state[s] = "validating_error"
                  /\ ("training_error" \notin FS
                        /\ "validating_error" \notin FS
                        /\ "testing_error" \in FS)
                         => state[s] = "testing_error"

\* C1 witness: the folds [tested, testing_error] of a new submission were
\* aggregated to testing_error.
C1_Witness ==
    /\ aggregated["A"]
    /\ fold_state["A"] = [f \in Folds |-> IF f = 1 THEN "tested"
                                          ELSE "testing_error"]
    /\ prev_state["A"] = "new"
    /\ state["A"] = "testing_error"

\* C8 (as stated): two submissions whose folds hold the same states have the
\* same state after set_state_after_training, whatever their previous state,
\* for every combination of the nine fold states.
C8_FunctionOfFoldStates ==
    (/\ aggregated["A"]
     /\ aggregated["B"]
     /\ fold_state["A"] = fold_state["B"]) => state["A"] = state["B"]

\* The lists of fold states one of the six branches of the rule covers.
RuleCovers(s) ==
    \/ FoldStateSet(s) \subseteq {"tested", "validated", "trained"}
    \/ FoldStateSet(s) \cap StageErrors # {}

\* C8 (amended): two submissions whose folds hold the same states have the
\* same state after set_state_after_training, whatever their previous state,
\* whenever every fold is in {trained, validated, tested} or some fold is in
\* training_error, validating_error or testing_error; for any other list of
\* fold states the call leaves each submission in its previous state.
C8_FunctionOfCoveredFoldStates ==
    /\ (/\ aggregated["A"]
        /\ aggregated["B"]
        /\ fold_state["A"] = fold_state["B"]
        /\ RuleCovers("A")) => state["A"] = state["B"]
    /\ \A s \in Submissions :
           (aggregated[s] /\ ~RuleCovers(s)) => state[s] = prev_state[s]

\* C8 witness: both submissions aggregated from the same covered fold states
\* and from different previous states.
C8_Witness ==
    /\ aggregated["A"]
    /\ aggregated["B"]
    /\ fold_state["A"] = fold_state["B"]
    /\ fold_state["A"] = [f \in Folds |-> "trained"]
    /\ prev_state["A"] = "new"
    /\ prev_state["B"] = "testing_error"
    /\ state["A"] = "trained"
    /\ state["B"] = "trained"

\* C9: when set_state_after_training resolves the submission to an error
\* state E (one of the three the rule assigns, held by some fold), the
\* submission's error_msg is the error_msg of the first fold whose state is E.
C9_MessageOfFirstFoldInState ==
    \A s \in Submissions :
        (/\ aggregated[s]
         /\ state[s] \in StageErrors
         /\ state[s] \in FoldStateSet(s))
        => error_msg[s] = fold_error_msg[s][FirstFoldIn(s, {state[s]})]

\* C9 witness: two folds in the resolved state with different messages.
C9_Witness ==
    /\ aggregated["A"]
    /\ fold_state["A"] = [f \in Folds |-> "validating_error"]
    /\ fold_error_msg["A"] = [f \in Folds |-> IF f = 1 THEN <<2>> ELSE <<1>>]
    /\ state["A"] = "validating_error"
    /\ error_msg["A"] = <<2>>

\* C10 (as stated): when several folds are in (possibly different) error
\* states, the aggregated state and message are those of the first fold, in
\* fold order, that is in an error state.
C10_FirstErrorFoldWins ==
    \A s \in Submissions :
        (/\ aggregated[s]
         /\ Cardinality({f \in Folds : fold_state[s][f] \in AllErrors}) >= 2)
        => /\ state[s] = fold_state[s][FirstFoldIn(s, AllErrors)]
           /\ error_msg[s] = fold_error_msg[s][FirstFoldIn(s, AllErrors)]

\* The highest ranking stage error among the folds of s.
TopStageError(s) ==
    IF "training_error" \in FoldStateSet(s) THEN "training_error"
    ELSE IF "validating_error" \in FoldStateSet(s) THEN "validating_error"
    ELSE "testing_error"

\* C10 (amended): when one or more folds are in training_error,
\* validating_error or testing_error (possibly different ones), the
\* aggregated state is the highest ranking of those present (training_error
\* before validating_error before testing_error) and the message is that of
\* the first fold, in fold order, that is in that state.
C10_TopErrorFirstFoldWins ==
    \A s \in Submissions :
        (aggregated[s] /\ FoldStateSet(s) \cap StageErrors # {})
        => /\ state[s] = TopStageError(s)
           /\ error_msg[s] =
                  fold_error_msg[s][FirstFoldIn(s, {TopStageError(s)})]

\* C10 witness: the first fold in error is a testing_error, a later fold a
\* training_error, and the later fold's state and message are surfaced.
C10_Witness ==
    /\ aggregated["A"]
    /\ fold_state["A"] = [f \in Folds |-> IF f = 1 THEN "testing_error"
                                          ELSE "training_error"]
    /\ fold_error_msg["A"] = [f \in Folds |-> IF f = 1 THEN <<1>> ELSE <<2>>]
    /\ state["A"] = "training_error"
    /\ error_msg["A"] = <<2>>

\* C38: for a submission that has no fold records, set_state_after_training
\* leaves the submission in state 'tested' with an empty error_msg, whatever
\* state and message it held before.
C38_NoFoldsResolvesToTested ==
    \A s \in Submissions :
        aggregated[s] /\ fold_state[s] = <<>> =>
            /\ state[s] = "tested"
            /\ error_msg[s] = NoMsg

\* C38 witness: a submission without fold records that held an error state
\* and a message was aggregated to 'tested' with no message.
C38_Witness ==
    /\ aggregated["A"]
    /\ fold_state["A"] = <<>>
    /\ prev_state["A"] = "training_error"
    /\ prev_error_msg["A"] # NoMsg
    /\ state["A"] = "tested"
    /\ error_msg["A"] = NoMsg

(***************************************************************************)
(* Properties of the fold state writers (model.py, update and set_state)   *)
(***************************************************************************)

\* The transitions of the per-fold state machine new -> trained -> validated
\* -> tested, each stage diverting to its own error state; the optional
\* check stage (checked, checking_error) comes before training.
FoldTransition(a, b) ==
    \/ a = "new" /\ b \in {"trained", "training_error"}
    \/ a = "new" /\ b \in {"checked", "checking_error"}
    \/ a = "checked" /\ b \in {"trained", "training_error"}
    \/ a = "trained" /\ b \in {"validated", "validating_error"}
    \/ a = "validated" /\ b \in {"tested", "testing_error"}

\* C5: over any sequence of update and set_state calls a per-fold state only
\* moves along new -> trained -> validated -> tested or diverts from a stage
\* to that stage's error state.
C5_FoldStateMachine ==
    [][\A s \in Submissions, f \in Folds :
          fold_state'[s][f] # fold_state[s][f] =>
              FoldTransition(fold_state[s][f], fold_state'[s][f])]_vars

\* C7: in every state reachable by update calls from a new fold,
\* test_predictions is set only if the fold is 'tested' and
\* full_train_predictions only if it is trained, validated or tested.
C7_PredictionsFollowState ==
    \A s \in Submissions, f \in Folds :
        /\ test_predictions[s][f] # "None" => fold_state[s][f] = "tested"
        /\ full_train_predictions[s][f] # "None" =>
               fold_state[s][f] \in {"trained", "validated", "tested"}

\* C31: aggregating a submission's state (set_state_after_training) changes
\* only the submission's own state, error_msg and training timestamp: every
\* fold's state and error_msg (and predictions), and every other submission,
\* are left unchanged.
C31_AggregationLeavesFoldsAlone ==
    [][\A s \in Submissions :
          (~aggregated[s] /\ aggregated'[s]) =>
              /\ fold_state' = fold_state
              /\ fold_error_msg' = fold_error_msg
              /\ full_train_predictions' = full_train_predictions
              /\ test_predictions' = test_predictions
              /\ \A t \in Submissions \ {s} :
                     /\ state'[t] = state[t]
                     /\ error_msg'[t] = error_msg[t]
                     /\ training_timestamp'[t] = training_timestamp[t]]_vars

\* C31 witness: a submission was aggregated to training_error with the
\* message of one fold while another fold still shows its own error and its
\* own, different message.
C31_Witness ==
    /\ aggregated["A"]
    /\ state["A"] = "training_error"
    /\ \E f \in Folds :
           /\ fold_state["A"][f] = "testing_error"
           /\ fold_error_msg["A"][f] # NoMsg
           /\ fold_error_msg["A"][f] # error_msg["A"]

\* C11: after every call of set_state_after_training, if the state of the
\* submission is not an error state then its error_msg is empty, whatever
\* message it held before the call.
C11_NonErrorStateClearsMessage ==
    \A s \in Submissions :
        (aggregated[s] /\ state[s] \notin AllErrors) => error_msg[s] = NoMsg

\* C11 witness: a submission that was in an error state with a message was
\* aggregated to a state that is not an error, and its message is empty.
C11_Witness ==
    /\ aggregated["A"]
    /\ prev_state["A"] \in AllErrors
    /\ prev_error_msg["A"] # NoMsg
    /\ state["A"] \notin AllErrors
    /\ error_msg["A"] = NoMsg

\* C40: update with an incoming state that is not an error state leaves
\* the fold's error_msg as it was; update with an incoming error state
\* changes only state and error_msg: the fold's times, predictions and
\* scores are as before.
C40_UpdateWritesMessageOnlyOnError ==
    update_called =>
        LET d == detached_on_cv_fold
            before == on_cv_fold_before
        IN  /\ ~is_error(d.state) =>
                   on_cv_fold.error_msg = before.error_msg
            /\ is_error(d.state) =>
                   on_cv_fold = [before EXCEPT !.state = d.state,
                                               !.error_msg = d.error_msg]

\* C40 witness: a tested row that holds a message, times, predictions and
\* scores was updated with a training error and another message: the
\* message was replaced and the times, predictions and scores were kept.
C40_Witness ==
    /\ update_called
    /\ on_cv_fold_before.state = "tested"
    /\ on_cv_fold_before.train_time = "t0"
    /\ on_cv_fold_before.test_predictions = "p1"
    /\ on_cv_fold_before.test_score = "s0"
    /\ on_cv_fold_before.error_msg # NoMsg
    /\ detached_on_cv_fold.state = "training_error"
    /\ detached_on_cv_fold.error_msg \notin {NoMsg, on_cv_fold_before.error_msg}
    /\ on_cv_fold.error_msg = detached_on_cv_fold.error_msg
    /\ on_cv_fold.train_time = "t0"
    /\ on_cv_fold.test_predictions = "p1"
    /\ on_cv_fold.test_score = "s0"

(***************************************************************************)
(* Properties of the scheduler (generic.py)                                *)
(***************************************************************************)

\* The files one submission owns.
FilesOf(s) == <<model_file[s], valid_file[s], test_file[s], error_txt[s],
                test_error_txt[s]>>

\* C2: when one fold of a submission raises during training or validation
\* while the folds run in parallel, the sibling folds are not aborted: each
\* runs to completion and keeps its stored predictions, and the failure is
\* recorded as the error state with a captured message.
C2_SiblingFoldsRunToCompletion ==
    \A s \in Submissions :
        (/\ pass = "train"
         /\ s \in visited
         /\ cur # s
         /\ \E f \in Folds : task[s][f] \in RaisedPcs)
        => /\ \A g \in Folds : task[s][g] \in {"done"} \cup RaisedPcs
           /\ \A g \in Folds :
                  task[s][g] = "done" => valid_file[s][g] = "saved"
           /\ df_state[s] = "error"
           /\ error_txt[s] # "absent"

\* What a finished pass leaves in the row of a submission it ran.
PassResult(s) ==
    IF \A f \in Folds : task[s][f] = "done"
    THEN (IF pass = "train" THEN "trained" ELSE "tested")
    ELSE (IF pass = "train" THEN "error" ELSE "test_error")

C4_LoadFailureRetrains ==
    \A s \in Submissions, f \in Folds :
        pass = "test" =>
            /\ task[s][f] # "raised_load"
            /\ (df_state[s] = "test_error" /\ s \in visited /\ cur # s) =>
                   \E g \in Folds : task[s][g] \in RaisedPcs \ {"raised_load"}

\* A fold worker of s took a step (it ran a stage of the fold).
WorkerStepped(s) ==
    \E f \in Folds :
        /\ task'[s][f] # task[s][f]
        /\ task'[s][f] \in RunningPcs \cup RaisedPcs \cup {"done"}

\* C6: error states are absorbing: once a fold run has failed no later
\* stage is attempted for it (a worker that raised runs nothing more), and a
\* later pass neither runs a stage for a failed submission nor moves it out
\* of its error state.
C6_ErrorStatesAbsorbing ==
    [][/\ \A s \in Submissions, f \in Folds :
             task[s][f] \in RaisedPcs =>
                 task'[s][f] \in {task[s][f], "pending"}
       /\ \A s \in Submissions :
             df_state[s] \in {"error", "test_error"} =>
                 /\ df_state'[s] = df_state[s]
                 /\ ~WorkerStepped(s)]_vars

\* The positions of a fold worker that has been through train_on_fold or is
\* past it.
AfterTrainPcs == {"trained", "retrained", "done"} \cup RaisedPcs

C17_CachedModelSkipsFit ==
    [][\A s \in Submissions, f \in Folds :
           model_file[s][f] = "ok" => n_train'[s][f] <= n_train[s][f]]_vars

\* C18: a failure while persisting the trained model or its training time
\* in train_on_fold does not fail the fold: train_on_fold still returns the
\* model, so no fold worker raises at the dump of the model.
C18_PersistFailureDoesNotFailFold ==
    \A s \in Submissions, f \in Folds : task[s][f] # "raised_dump"

\* C19: for each fold the train stage completes before the validate stage
\* starts and the validate stage completes before the test stage starts: a
\* fold's test stage is never run when the fold has not been validated.
C19_StagesInOrder ==
    \A s \in Submissions, f \in Folds :
        /\ (pass = "train" /\ task[s][f] \in {"done", "raised_valid"}) =>
               n_train[s][f] = 1
        /\ (pass = "test" /\ task[s][f] \notin {"pending", "aborted"}) =>
               valid_file[s][f] = "saved"

\* C21: the scheduler writes the state of a submission only after all fold
\* tasks of that submission have returned, each by success or by a captured
\* error: at the write no fold of the submission is still to run or running,
\* so the state is never computed from a partial set of fold results.
C21_StateWrittenAfterAllFoldsReturned ==
    [][\A s \in Submissions :
           (cur = s /\ cur' # s) =>
               \A f \in Folds : task[s][f] \in {"done"} \cup RaisedPcs]_vars

\* C22: in every reachable state, after any sequence of scheduler passes,
\* the state of a submission is one of the nine lifecycle values of
\* submission_states (a row the passes skip keeps its "ignore" mark).
C22_StateIsLifecycleValue ==
    \A s \in Submissions :
        /\ state[s] \in submission_states
        /\ s \in visited => df_state[s] \in submission_states

\* C23: a submission marked "ignore" is excluded from a scheduler pass:
\* train_and_valid_models and test_models run no fold of it (no fit, no
\* predict, no artifact written) and leave its state unchanged, while every
\* other submission of the batch is run.
C23_IgnoredIsExcluded ==
    /\ [](\A s \in Submissions :
             df_state[s] = "ignore" =>
                 /\ s \notin visited
                 /\ cur # s
                 /\ \A f \in Folds :
                        /\ task[s][f] = "pending"
                        /\ n_train[s][f] = 0
                        /\ model_file[s][f] = "absent"
                        /\ valid_file[s][f] = "absent"
                        /\ test_file[s][f] = "absent"
                 /\ error_txt[s] = "absent"
                 /\ test_error_txt[s] = "absent")
    /\ [](pc = "idle" /\ pass # "none" =>
             \A s \in Submissions : df_state[s] # "ignore" => s \in visited)
    /\ [][\A s \in Submissions :
             df_state[s] = "ignore" => df_state'[s] = "ignore"]_vars

\* C23 witness: both passes ran over a table whose older row A is marked
\* "ignore": A is untouched and B was trained and tested.
C23_Witness ==
    /\ pc = "idle"
    /\ ran = {"train", "test"}
    /\ pass = "test"
    /\ df_state["A"] = "ignore"
    /\ df_state["B"] = "tested"
    /\ \A f \in Folds : test_file["B"][f] = "saved"
    /\ \A f \in Folds : model_file["A"][f] = "absent"

(***************************************************************************)
(* Properties of the greedy ensemble (generic.py)                          *)
(***************************************************************************)

\* The score of the combination of an index list, and of one more index.
ListScore(index_list) ==
    ScoreOf(score, ground_truth,
            combine_models_using_probas(predictions_list, index_list))
CandidateScore(index_list, i) == ListScore(Append(index_list, i))

\* A round of the while loop has run.
RoundRan == epc \in {"loop", "returned", "ranked"} /\ old_best_index_list # <<>>

\* C12: the greedy loop of get_best_index_list stops after at most
\* max_n_ensemble rounds: the index list never has more than max_n_ensemble
\* elements.
C12_AtMostMaxEnsembleRounds ==
    Len(best_index_list) <= max_n_ensemble

\* C13: across the rounds of the greedy loop the score of the combination
\* of the current index list never decreases: after each round it is at
\* least the score before the round, and strictly better when the round
\* appended an index.
C13_ScoreNeverDecreases ==
    RoundRan =>
        /\ ~Better(ListScore(old_best_index_list), ListScore(best_index_list))
        /\ best_index_list # old_best_index_list =>
               Better(ListScore(best_index_list),
                      ListScore(old_best_index_list))

\* C13 witness: a round appended an index, the list of two scoring strictly
\* better than the best single model, the next round appended nothing, and
\* the loop returned.
C13_Witness ==
    /\ epc = "returned"
    /\ Len(best_index_list) = 2
    /\ old_best_index_list = best_index_list
    /\ Better(ListScore(best_index_list),
              ListScore(SubSeq(best_index_list, 1, 1)))

\* C14: one greedy step appends exactly one index if and only if some
\* candidate list current + [i] scores strictly better than the current
\* combination; if every candidate scores equal or worse, the list is
\* returned unchanged and the loop stops.
C14_StrictImprovementOnly ==
    RoundRan =>
        LET improving ==
                {i \in DOMAIN predictions_list :
                    Better(CandidateScore(old_best_index_list, i),
                           ListScore(old_best_index_list))}
        IN  /\ improving # {} =>
                   \E i \in improving :
                       best_index_list = Append(old_best_index_list, i)
            /\ improving = {} =>
                   /\ best_index_list = old_best_index_list
                   /\ ~improvement

\* C14 witness: a round found a candidate that ties with the current
\* combination and none that beats it; the list was returned unchanged.
C14_Witness ==
    /\ epc = "returned"
    /\ best_index_list = old_best_index_list
    /\ \E i \in DOMAIN predictions_list :
           /\ ~Better(CandidateScore(best_index_list, i),
                      ListScore(best_index_list))
           /\ ~Better(ListScore(best_index_list),
                      CandidateScore(best_index_list, i))

\* The best single model: the first index whose own score no model beats.
BestSingle ==
    CHOOSE b \in DOMAIN predictions_list :
        /\ \A i \in DOMAIN predictions_list :
               ~Better(ListScore(<<i>>), ListScore(<<b>>))
        /\ \A i \in DOMAIN predictions_list :
               i < b => Better(ListScore(<<b>>), ListScore(<<i>>))

\* No candidate [b, i] beats [b] alone.
NoPairBeats(b) ==
    \A i \in DOMAIN predictions_list :
        ~Better(CandidateScore(<<b>>, i), ListScore(<<b>>))

\* C15: if no candidate [b, i] scores strictly better than the best single
\* model b alone, the greedy engine returns exactly [b], and in the
\* contributivity leaderboard b is ranked first with a count of 1 for that
\* fold while every other submission gets 0.
C15_BestSingleAlone ==
    epc \in {"returned", "ranked"} =>
        LET b == BestSingle
        IN  NoPairBeats(b) =>
                /\ best_index_list = <<b>>
                /\ epc = "ranked" =>
                       /\ counts[b] = 1
                       /\ \A i \in DOMAIN counts : i # b => counts[i] = 0
                       /\ leaderboard[1] = b

\* C15 witness: of two models the second is the best single one, no pair
\* beats it, and the leaderboard ranks it first.
C15_Witness ==
    /\ epc = "ranked"
    /\ DOMAIN predictions_list = {0, 1}
    /\ BestSingle = 1
    /\ NoPairBeats(1)
    /\ best_index_list = <<1>>
    /\ leaderboard = <<1, 0>>

\* The while loop is about to run its first round.
BeforeFirstRound == epc = "loop" /\ old_best_index_list = <<>>

\* The score of each model of the pool alone (615-616).
SingleScores == get_scores(score, predictions_list, ground_truth)

\* C34: get_best_index_list starts the greedy search from a list of one
\* element, the index of a model of the pool whose own validation score no
\* other single model beats under the comparison of the score.
C34_StartsFromBestSingle ==
    BeforeFirstRound =>
        /\ Len(best_index_list) = 1
        /\ best_index_list[1] \in DOMAIN predictions_list
        /\ \A i \in DOMAIN predictions_list :
               ~Better(SingleScores[i], SingleScores[best_index_list[1]])

\* C34 witness: of two models the second scores strictly better than the
\* first, and the search starts from the list holding the second.
C34_Witness ==
    /\ BeforeFirstRound
    /\ DOMAIN predictions_list = {0, 1}
    /\ Better(SingleScores[1], SingleScores[0])
    /\ best_index_list = <<1>>

\* C36: for a pool of N >= 1 models, in every state of the greedy loop, in
\* its result and when the leaderboard is counted, the best index list is
\* not empty and each of its elements is an index of the pool, 0..N-1.
C36_ListNonEmptyAndInRange ==
    epc # "start" =>
        /\ Cardinality(DOMAIN predictions_list) >= 1
        /\ Len(best_index_list) > 0
        /\ \A q \in DOMAIN best_index_list :
               /\ best_index_list[q] >= 0
               /\ best_index_list[q] < Cardinality(DOMAIN predictions_list)

\* C36 witness: the loop returned a list to which a round appended the last
\* index of a pool of two.
C36_Witness ==
    /\ epc = "returned"
    /\ Cardinality(DOMAIN predictions_list) = 2
    /\ Len(best_index_list) >= 2
    /\ best_index_list[Len(best_index_list)] = 1

\* How often the list names the index.
TimesIn(index_list, i) ==
    Cardinality({q \in DOMAIN index_list : index_list[q] = i})

\* C35: after leaderboard_combination the count of submission i is the
\* number of occurrences of index i over the best index lists of all the
\* folds, an index named k times in one fold counting k; so the counts of
\* all the submissions sum to the sum of the lengths of the lists.
C35_CountsAreOccurrencesOverFolds ==
    lb_pc = "returned" =>
        /\ DOMAIN lb_counts = 0..(models_df_shape - 1)
        /\ \A i \in DOMAIN lb_counts :
               lb_counts[i] =
                   SumSeq([f \in DOMAIN best_index_lists |->
                              TimesIn(best_index_lists[f], i)])
        /\ SumSeq([k \in 1..models_df_shape |-> lb_counts[k - 1]]) =
               SumSeq([f \in DOMAIN best_index_lists |->
                          Len(best_index_lists[f])])

\* C35 witness: the lists of the two folds differ, one of them names an
\* index twice, the other names it too, and its count is three.
C35_Witness ==
    /\ lb_pc = "returned"
    /\ \E f, g \in DOMAIN best_index_lists : \E i \in DOMAIN lb_counts :
           /\ f # g
           /\ best_index_lists[f] # best_index_lists[g]
           /\ TimesIn(best_index_lists[f], i) = 2
           /\ TimesIn(best_index_lists[g], i) = 1
           /\ lb_counts[i] = 3

\* a is a prefix of b
IsPrefix(a, b) == Len(a) <= Len(b) /\ SubSeq(b, 1, Len(a)) = a

\* C37: once the search has its starting list, every step leaves the list
\* of the step before as a prefix of the list: the list only grows by
\* appending, and its first element stays the best single model the search
\* started from.
C37_ListGrowsByAppending ==
    [][best_index_list # <<>> =>
           /\ IsPrefix(best_index_list, best_index_list')
           /\ best_index_list'[1] = best_index_list[1]]_vars

\* C37 witness: the loop returned a list of two different indexes whose
\* first element is the best single model.
C37_Witness ==
    /\ epc = "returned"
    /\ Len(best_index_list) = 2
    /\ best_index_list[1] # best_index_list[2]
    /\ best_index_list[1] = argmax(SingleScores)

(***************************************************************************)
(* Properties of the combiners (model.py, generic.py)                      *)
(***************************************************************************)

\* The predictions a call selects: the index list, or every index in order.
Selected(ixs) ==
    IF Len(ixs) = 0 THEN RangeSeq(Cardinality(DOMAIN predictions_list))
    ELSE ixs

\* The selected list is [p] or [p, p].
IsOnceOrTwice(ixs, p) ==
    /\ Len(Selected(ixs)) \in {1, 2}
    /\ \A k \in DOMAIN Selected(ixs) : predictions_list[Selected(ixs)[k]] = p

\* C24: for every prediction p, combining the list [p] and combining the
\* list [p, p] both yield exactly the combinable view of p, with
\* combine_predictions_list as with combine_models_using_probas.
C24_CombineOfDuplicatesIsIdentity ==
    \A i \in DOMAIN predictions_list :
        LET p == predictions_list[i]
        IN  /\ (y_comb # <<>> /\ IsOnceOrTwice(y_comb_index_list, p))
                   => y_comb = CombinableView(p)
            /\ (combined_y_probas_array # <<>> /\ IsOnceOrTwice(indexes, p))
                   => combined_y_probas_array = CombinableView(p)

\* C24 witness: combine_predictions_list was called on the full list [p, p]
\* of a prediction that holds a 1 and a nan.
C24_Witness ==
    /\ y_comb # <<>>
    /\ y_comb_index_list = <<>>
    /\ DOMAIN predictions_list = {0, 1}
    /\ predictions_list[0] = predictions_list[1]
    /\ predictions_list[0][1] = 1
    /\ predictions_list[0][2] = nan
    /\ y_comb = CombinableView(predictions_list[0])

\* The index list with the indices at positions a and a + 1 exchanged:
\* every permutation of the list is a chain of such exchanges.
Exchanged(ixs, a) ==
    [k \in DOMAIN ixs |-> IF k = a THEN ixs[a + 1]
                          ELSE IF k = a + 1 THEN ixs[a] ELSE ixs[k]]

\* The mean at point j of the entries that are numbers, each selected index
\* counted once per occurrence: computed from the number of occurrences.
MeanOfNumbers(ixs, j) ==
    LET sel == Selected(ixs)
        times(i) == Cardinality({k \in DOMAIN sel : sel[k] = i})
        holders == {i \in DOMAIN predictions_list :
                       times(i) > 0 /\ IsNumber(predictions_list[i][j])}
        weight == SumSeq([k \in 1..Cardinality(DOMAIN predictions_list) |->
                             IF (k - 1) \in holders THEN times(k - 1) ELSE 0])
        total == SumSeq([k \in 1..Cardinality(DOMAIN predictions_list) |->
                            IF (k - 1) \in holders
                            THEN times(k - 1) * predictions_list[k - 1][j]
                            ELSE 0])
    IN  IF holders = {} THEN NanValue ELSE Reduce(total, weight)

C26_MeanIgnoresMissingEntries ==
    /\ y_comb # <<>> =>
           \A j \in Points :
               y_comb[j] = MeanOfNumbers(y_comb_index_list, j)
    /\ combined_y_probas_array # <<>> =>
           \A j \in Points :
               combined_y_probas_array[j] = MeanOfNumbers(indexes, j)

(***************************************************************************)
(* Properties of the calibrator (generic.py)                               *)
(***************************************************************************)

\* Both calls of calibrate returned.
BothCalibrated == \A c \in Calls : raised[c] = "none"

\* The two halves of the first call, each as the half A that is held fixed:
\* the ground truths of the two calls differ only outside it.
HalvesHeldFixed ==
    {A \in {folds[1].fold1_is, folds[1].fold2_is} :
        \A p \in A : cal_ground_truth[1][p] = cal_ground_truth[2][p]}

\* C27 (as stated): calibrate splits the labelled set into two disjoint
\* halves A and B; running it on two inputs that differ only in the labels
\* of points of B gives the same calibrated output for every point of B.
C27_NoLeakage ==
    BothCalibrated =>
        \A A \in HalvesHeldFixed :
            \A p \in CalPoints \ A :
                calibrated_proba_array[1][p] = calibrated_proba_array[2][p]

\* The two calls split the points into the same two halves.
SameHalves ==
    {folds[1].fold1_is, folds[1].fold2_is} =
    {folds[2].fold1_is, folds[2].fold2_is}

\* C27 (amended): calibrate splits the labelled set into two disjoint
\* halves and calibrates every point with the calibrator fitted on the half
\* that does not contain it; running it on two inputs that differ only in
\* the labels of points of B gives the same calibrated output for every
\* point of B whenever the split, which is stratified on all the labels,
\* yields the same two halves for both inputs.
C27_NoLeakageGivenSameHalves ==
    /\ \A c \in Calls :
           raised[c] = "none" =>
               /\ folds[c].fold1_is \cap folds[c].fold2_is = {}
               /\ folds[c].fold1_is \cup folds[c].fold2_is = CalPoints
    /\ (BothCalibrated /\ SameHalves) =>
           \A A \in HalvesHeldFixed :
               \A p \in CalPoints \ A :
                   calibrated_proba_array[1][p] = calibrated_proba_array[2][p]

\* C27 witness: two calls on ground truths that differ on the half B and
\* agree on A were split alike, and the points of B got the same values.
C27_Witness ==
    /\ BothCalibrated
    /\ SameHalves
    /\ \E A \in HalvesHeldFixed :
           /\ \E p \in CalPoints \ A :
                  cal_ground_truth[1][p] # cal_ground_truth[2][p]
           /\ \A p \in CalPoints \ A :
                  calibrated_proba_array[1][p] = calibrated_proba_array[2][p]
           /\ \E p \in A :
                  calibrated_proba_array[1][p] # calibrated_proba_array[2][p]

\* C28: if a class has no positive example in the half a calibrator is
\* fitted on (fewer distinct labels in that half than probability columns),
\* calibration does not fail: IsotonicCalibrator.fit completes and calibrate
\* returns.
C28_AbsentClassDoesNotFail ==
    \A c \in Calls : raised[c] # "IndexError"

(***************************************************************************)
(* Properties of one greedy step (model.py, generic.py)                    *)
(***************************************************************************)

\* The score of the candidate list current + [i], as each implementation
\* combines and scores it.
CandidatesOfBestCombine ==
    [i \in DOMAIN predictions_list |->
        ScoreOf(score, ground_truth,
                combine_models_using_probas(predictions_list,
                                            Append(step_index_list, i)))]

CandidatesOfNextBest ==
    [i \in DOMAIN predictions_list |->
        ScoreOfCombined(score, ground_truth,
                        combine_predictions_list(predictions_list,
                                                 Append(step_index_list, i)))]

\* No candidate beats candidate i, and i beats every candidate before it.
IsLowestBest(i, candidates) ==
    /\ \A k \in DOMAIN candidates : ~Better(candidates[k], candidates[i])
    /\ \A k \in DOMAIN candidates :
           k < i => Better(candidates[i], candidates[k])

\* Two scores are the same fraction.
SameScore(x, y) == x[1] * y[2] = y[1] * x[2]

\* C33: when a greedy step appends an index, the appended index is one whose
\* candidate list current + [i] has the best score among all N candidates
\* (the lowest such index when several tie for best), and the score returned
\* by get_next_best_single_fold equals the score of the combination of the
\* returned list.
C33_AppendedIndexIsBestCandidate ==
    /\ (best_combine_result # <<>> /\ best_combine_result # step_index_list)
           => LET candidates == CandidatesOfBestCombine
              IN  \E i \in DOMAIN predictions_list :
                      /\ best_combine_result = Append(step_index_list, i)
                      /\ IsLowestBest(i, candidates)
    /\ next_best_single_fold # <<>> =>
           /\ next_best_single_fold[1] # step_index_list =>
                  LET candidates == CandidatesOfNextBest
                  IN  \E i \in DOMAIN predictions_list :
                          /\ next_best_single_fold[1] =
                                 Append(step_index_list, i)
                          /\ IsLowestBest(i, candidates)
           /\ SameScore(next_best_single_fold[2],
                        ScoreOfCombined(score, ground_truth,
                            combine_predictions_list(predictions_list,
                                next_best_single_fold[1])))

\* C33 witness: both implementations appended the same index to the list,
\* a later candidate ties with it for best, and the returned score is
\* better than the score of the list the step was called on.
C33_Witness ==
    /\ best_combine_result # <<>>
    /\ next_best_single_fold # <<>>
    /\ Len(best_combine_result) = Len(step_index_list) + 1
    /\ next_best_single_fold[1] = best_combine_result
    /\ \E k \in DOMAIN predictions_list :
           /\ k > best_combine_result[Len(best_combine_result)]
           /\ SameScore(CandidatesOfNextBest[k], next_best_single_fold[2])
    /\ Better(next_best_single_fold[2],
              ScoreOfCombined(score, ground_truth,
                  combine_predictions_list(predictions_list,
                                           step_index_list)))

(***************************************************************************)
(* Properties of the fold identity (generic.py)                            *)
(***************************************************************************)

\* The index list the k-th call hashed.
HashedBy(k) == train_is[2 - (k % 2)]

\* C32: the fold identity is a pure function of the training-index
\* sequence: the same sequence (same values, same order) always yields the
\* same identity, and two distinct sequences yield different identities.
C32_IdentityIsInjectiveFunction ==
    \A j, k \in DOMAIN hash_string :
        (hash_string[j] # <<>> /\ hash_string[k] # <<>>) =>
            (hash_string[j] = hash_string[k] <=> HashedBy(j) = HashedBy(k))

\* C32 witness: two lists of the same indices in a different order were
\* hashed, the first one twice; it got the same identity both times, and
\* the identities of the two lists differ.
C32_Witness ==
    /\ \A k \in DOMAIN hash_string : hash_string[k] # <<>>
    /\ train_is[1] # train_is[2]
    /\ {train_is[1][i] : i \in DOMAIN train_is[1]} =
           {train_is[2][i] : i \in DOMAIN train_is[2]}
    /\ Len(train_is[1]) = Len(train_is[2])
    /\ hash_string[1] = hash_string[3]
    /\ hash_string[1] # hash_string[2]

(***************************************************************************)
(* Properties of contributivity and of the leaderboards                    *)
(***************************************************************************)

\* C29: a submission marked invalid (is_valid false) or excluded from
\* ensembling (is_to_ensemble false) has contributivity 0 after
\* set_contributivity whatever its folds' contributivities are, and it
\* keeps its own individual score.
C29_ExcludedContributesZero ==
    [][\A s \in Submissions :
          (SetContributivity(s) /\ (~is_valid[s] \/ ~is_to_ensemble[s])) =>
              /\ contributivity'[s] = <<0, 1>>
              /\ valid_score_cv_bag'[s] = valid_score_cv_bag[s]]_vars

\* C30: the leaderboards are returned best-first: leaderboard_classical
\* lists no submission before one with a strictly better mean score, and
\* leaderboard_combination lists them in descending order of
\* contributivity.
C30_LeaderboardsBestFirst ==
    /\ classical_leaderboard # <<>> =>
           LET mean_scores == get_scores(score, predictions_list, ground_truth)
           IN  \A a, b \in DOMAIN classical_leaderboard :
                   a < b => ~Better(mean_scores[classical_leaderboard[b]],
                                    mean_scores[classical_leaderboard[a]])
    /\ epc = "ranked" =>
           \A a, b \in DOMAIN leaderboard :
               a < b => counts[leaderboard[a]] >= counts[leaderboard[b]]

(***************************************************************************)
(* Properties of the error file (generic.py)                               *)
(***************************************************************************)

\* The marker occurs in the text.
HasMarker(text) == \E i \in 0..Len(text) : OccursAt(text, Marker, i)

\* The text after the last occurrence of the marker.
AfterLastMarker(text) ==
    SubSeq(text, rfind(text, Marker) + Len(Marker) + 1, Len(text))

\* C39: the error message written for a failed submission is exactly the
\* text after the last occurrence of the marker '--->' in the exception
\* text, the marker and everything before it dropped, wherever the marker
\* occurs; it is the whole exception text when the marker does not occur.
C39_MessageIsTextAfterLastMarker ==
    f_name # "none" =>
        f_written = IF HasMarker(exception_text)
                    THEN AfterLastMarker(exception_text)
                    ELSE exception_text

(***************************************************************************)
(* Properties of the fold workers on the file system (generic.py)          *)
(***************************************************************************)

\* C20: fold workers of one submission running in parallel have disjoint
\* write sets (no two of them create or write the same path: files,
\* lazily created sub-directories, __init__.py), and no interleaving makes
\* one of them fail.
C20_DisjointWriteSets ==
    /\ \A f \in Folds : wpc[f].at # "raised_mkdir"
    /\ \A f, g \in Folds : f # g => wrote[f] \cap wrote[g] = {}

=============================================================================
